---- MODULE Spec2Model ----
(***************************************************************************)
(* Compliance auditor of hiuiwb/ACE: the fulfilment pre-pass and the       *)
(* orchestration of main.py, the per-event assert / query / retract loop   *)
(* of Auditor.run_audit, and the policy rules the query evaluates.         *)
(*                                                                         *)
(* Time is counted in seconds; a date ('YYYY-MM-DD') is a day number, the  *)
(* timestamp divided by the seconds of a day.  A missing value (None, NaN, *)
(* NaT) is the empty tuple, a present value t is <<t>>.                    *)
(***************************************************************************)
EXTENDS Integers, Sequences, FiniteSets, TLC

VARIABLES
    kb,                 \* rows of the knowledge-base DataFrame (kb_df)
    staff_log,          \* staff_log_df, as returned by load_staff_log
    patient_log,        \* patient_log_df, as returned by load_patient_log
    db,                 \* the clauses of the Prolog database, in assertion order
    pc,                 \* position of the single thread of control
    run,                \* 1: run_audit(staff_log_df), 2: run_audit(patient_log_df)
    idx,                \* position of iterrows() in the log being audited
    action_fact,        \* local of run_audit
    attribute_facts,    \* local of run_audit
    all_violations,     \* local of run_audit
    staff_violations,   \* result of the first run_audit, in main
    patient_violations, \* result of the second run_audit, in main
    hist,               \* history: the steps taken so far, in order
    scorer,             \* the ComplianceScorer: weights, k, rule_criticalities
    principal_id,       \* argument of calculate_final_score
    time_window_days,   \* argument of calculate_final_score
    final_score         \* what calculate_final_score returned; <<>> before

scorer_vars == <<scorer, principal_id, time_window_days, final_score>>

vars == <<kb, staff_log, patient_log, db, pc, run, idx, action_fact,
          attribute_facts, all_violations, staff_violations,
          patient_violations, hist, scorer, principal_id, time_window_days,
          final_score>>

-----------------------------------------------------------------------------
(* Bounds of the model *)

MaxStaffLog == 2
MaxPatientLog == 2
DaySpread == 2
MaxViolations == 3

-----------------------------------------------------------------------------
(* Program constants *)

\* AUDIT_DATE = "2025-08-31", as a day number
AUDIT_DATE == 60

\* the 30-day limit of the fulfilment pre-pass (time_delta.days <= 30)
FULFIL_LIMIT_DAYS == 30

\* the 30-day limit of the access rule (Days > 30)
ACCESS_LIMIT_DAYS == 30

SecondsPerDay == 24 * 3600

NaT == <<>>

-----------------------------------------------------------------------------
(* Generic helpers on sequences *)

RECURSIVE FlatMap(_, _)
FlatMap(Op(_), s) ==
    IF s = <<>> THEN <<>> ELSE Op(Head(s)) \o FlatMap(Op, Tail(s))

SeqsUpTo(S, n) == UNION {[1..k -> S] : k \in 0..n}

Range(s) == {s[k] : k \in 1..Len(s)}

-----------------------------------------------------------------------------
(* data_loader.py *)

\* pd.to_datetime(..., errors='coerce'): a parseable text becomes a Timestamp,
\* anything else NaT.  A raw CSV cell is [ok, t]: ok says the text parses.
ToDatetimeCoerce(raw) == IF raw.ok THEN <<raw.t>> ELSE NaT

\* load_staff_log: the timestamp column is parsed; the frame has no
\* request_timestamp / process_timestamp column (entry.get gives None).
load_staff_log(rows) ==
    [k \in 1..Len(rows) |->
        [log_id            |-> "s" \o ToString(k),
         principal         |-> rows[k].principal,
         action            |-> rows[k].action,
         resource          |-> rows[k].resource,
         purpose           |-> rows[k].purpose,
         attrs             |-> rows[k].attrs,
         timestamp         |-> ToDatetimeCoerce(rows[k].timestamp),
         request_timestamp |-> NaT,
         process_timestamp |-> NaT]]

\* load_patient_log: both timestamp columns are parsed; the frame has no
\* timestamp column and no purpose column.
load_patient_log(rows) ==
    [k \in 1..Len(rows) |->
        [log_id            |-> "p" \o ToString(k),
         principal         |-> rows[k].principal,
         action            |-> rows[k].action,
         resource          |-> rows[k].resource,
         purpose           |-> "",
         attrs             |-> rows[k].attrs,
         timestamp         |-> NaT,
         request_timestamp |-> ToDatetimeCoerce(rows[k].request_timestamp),
         process_timestamp |-> ToDatetimeCoerce(rows[k].process_timestamp)]]

-----------------------------------------------------------------------------
(* The Prolog database (pyswip) *)

FactEq(f, g) == Len(f) = Len(g) /\ f[1] = g[1] /\ f = g

\* Prolog.assertz: the clause is added after the existing ones; a clause
\* that is already present is added again.
assertz(base, fact) == Append(base, fact)

\* Faulty variant of retractall: the retraction has no effect.
retractall_keeps(base, fact) == base

\* Prolog.retractall on a ground fact: every clause equal to it is removed;
\* none present is not an error.
retractall(base, fact) == SelectSeq(base, LAMBDA g : ~FactEq(g, fact))

\* Faulty variant of retract: the clause stays.
retract_keeps(base, fact) == base

\* Prolog.retract on a ground fact: the first clause equal to it is removed.
RECURSIVE retract(_, _)
retract(base, fact) ==
    IF base = <<>> THEN <<>>
    ELSE IF FactEq(Head(base), fact) THEN Tail(base)
    ELSE <<Head(base)>> \o retract(Tail(base), fact)

Clauses(base, name) == SelectSeq(base, LAMBDA f : f[1] = name)

Holds(base, fact) == \E k \in 1..Len(base) : FactEq(base[k], fact)

EphemeralNames == {"read_phi", "read_attribute", "request_access", "request_deactivation"}

Ephemeral(base) == SelectSeq(base, LAMBDA f : f[1] \in EphemeralNames)

-----------------------------------------------------------------------------
(* auditor.py: helpers of Auditor *)

\* Auditor._format_fact: the missing (NaN) arguments are dropped.
_format_fact(row) == <<row.fact_name>> \o row.arg1 \o row.arg2 \o row.arg3

\* Auditor._date_to_ymd: None for a missing value, else the date of the
\* timestamp (the time of day is dropped by strftime('%Y-%m-%d')).
_date_to_ymd(val) == IF val = NaT THEN <<>> ELSE <<val[1] \div SecondsPerDay>>

\* Auditor.load_kb_facts: every row is asserted, in row order.
RECURSIVE load_kb_facts(_, _)
load_kb_facts(base, rows) ==
    IF rows = <<>> THEN base
    ELSE load_kb_facts(assertz(base, _format_fact(Head(rows))), Tail(rows))

\* Faulty variant of ActionFact: an action that is no trigger is treated as a read.
ActionFact_AnyAction(entry) ==
    IF entry.action = "request_access"
    THEN <<"request_access", entry.principal, entry.resource, entry.log_id,
           _date_to_ymd(entry.request_timestamp)>>
    ELSE IF entry.action = "request_deactivation"
    THEN <<"request_deactivation", entry.principal, entry.log_id,
           _date_to_ymd(entry.request_timestamp)>>
    ELSE <<"read_phi", entry.principal, entry.resource, entry.purpose, entry.log_id>>

\* Faulty variant of ActionFact: principal and resource of read_phi change places.
ActionFact_Swapped(entry) ==
    IF entry.action = "read_phi"
    THEN <<"read_phi", entry.resource, entry.principal, entry.purpose, entry.log_id>>
    ELSE IF entry.action = "request_access"
    THEN <<"request_access", entry.principal, entry.resource, entry.log_id,
           _date_to_ymd(entry.request_timestamp)>>
    ELSE IF entry.action = "request_deactivation"
    THEN <<"request_deactivation", entry.principal, entry.log_id,
           _date_to_ymd(entry.request_timestamp)>>
    ELSE <<>>

\* Faulty variant of ActionFact: purpose and log id of read_phi change places.
ActionFact_PurposeMisplaced(entry) ==
    IF entry.action = "read_phi"
    THEN <<"read_phi", entry.principal, entry.resource, entry.log_id, entry.purpose>>
    ELSE IF entry.action = "request_access"
    THEN <<"request_access", entry.principal, entry.resource, entry.log_id,
           _date_to_ymd(entry.request_timestamp)>>
    ELSE IF entry.action = "request_deactivation"
    THEN <<"request_deactivation", entry.principal, entry.log_id,
           _date_to_ymd(entry.request_timestamp)>>
    ELSE <<>>

\* The action fact built for an entry; <<>> stands for None (no known trigger).
\* The request date of a request fact is <<day>>, or <<>> for the text ''.
ActionFact(entry) ==
    IF entry.action = "read_phi"
    THEN <<"read_phi", entry.principal, entry.resource, entry.purpose, entry.log_id>>
    ELSE IF entry.action = "request_access"
    THEN <<"request_access", entry.principal, entry.resource, entry.log_id,
           _date_to_ymd(entry.request_timestamp)>>
    ELSE IF entry.action = "request_deactivation"
    THEN <<"request_deactivation", entry.principal, entry.log_id,
           _date_to_ymd(entry.request_timestamp)>>
    ELSE <<>>

\* The entry is left by `continue` (or has no action fact) before anything
\* is asserted.
StartsWithRequest(action) == action \in {"request_access", "request_deactivation"}

Skipped(entry) ==
    \/ ActionFact(entry) = <<>>
    \/ StartsWithRequest(entry.action) /\ entry.request_timestamp = NaT

\* The attribute columns, in the order the loop visits them.
AttributeColumns == <<"lab_result", "clinical_note", "billing_info">>

\* Faulty variant of AttributeFacts: the action of the entry is not looked at.
AttributeFacts_AnyAction(entry) ==
    FlatMap(LAMBDA attr :
               IF attr \in entry.attrs
               THEN <<<<"read_attribute", entry.principal, entry.resource, attr>>>>
               ELSE <<>>,
            AttributeColumns)

\* Faulty variant of AttributeFacts: the flag of the column is not looked at.
AttributeFacts_Unflagged(entry) ==
    IF entry.action = "read_phi"
    THEN FlatMap(LAMBDA attr :
                    <<<<"read_attribute", entry.principal, entry.resource, attr>>>>,
                 AttributeColumns)
    ELSE <<>>

\* The read_attribute facts of an entry: one per flagged column, read_phi only.
AttributeFacts(entry) ==
    IF entry.action = "read_phi"
    THEN FlatMap(LAMBDA attr :
                    IF attr \in entry.attrs
                    THEN <<<<"read_attribute", entry.principal, entry.resource, attr>>>>
                    ELSE <<>>,
                 AttributeColumns)
    ELSE <<>>

RECURSIVE AssertAll(_, _)
AssertAll(base, facts) ==
    IF facts = <<>> THEN base
    ELSE AssertAll(assertz(base, Head(facts)), Tail(facts))

\* Faulty variant of RetractAllOf: the cleanup empties the database.
RetractAllOf_Wipe(base, facts) == <<>>

\* The retractall of each fact of a list in turn.
RECURSIVE RetractAllOf(_, _)
RetractAllOf(base, facts) ==
    IF facts = <<>> THEN base
    ELSE RetractAllOf(retractall(base, Head(facts)), Tail(facts))

\* Faulty variant of RecordTimestamp: only the request timestamp is taken.
RecordTimestamp_Request(entry) == entry.request_timestamp

\* entry.get('timestamp') or entry.get('request_timestamp')
RecordTimestamp(entry) ==
    IF entry.timestamp # NaT THEN entry.timestamp ELSE entry.request_timestamp

-----------------------------------------------------------------------------
(* main.py: the fulfilment pre-pass *)

\* Timedelta.days: whole days, rounded towards minus infinity.
TimedeltaDays(delta) == delta \div SecondsPerDay

\* Faulty variant of FulfilledFact: the limit is exclusive (days < 30).
FulfilledFact_Exclusive(req) ==
    IF req.process_timestamp = NaT \/ req.request_timestamp = NaT THEN <<>>
    ELSE IF TimedeltaDays(req.process_timestamp[1] - req.request_timestamp[1])
              < FULFIL_LIMIT_DAYS
    THEN IF req.action = "request_access"
         THEN <<[fact_name |-> "request_fulfilled", arg1 |-> <<req.log_id>>,
                 arg2 |-> <<>>, arg3 |-> <<>>]>>
         ELSE IF req.action = "request_deactivation"
         THEN <<[fact_name |-> "deactivation_fulfilled", arg1 |-> <<req.log_id>>,
                 arg2 |-> <<>>, arg3 |-> <<>>]>>
         ELSE <<>>
    ELSE <<>>

FulfilledFact(req) ==
    IF req.process_timestamp = NaT \/ req.request_timestamp = NaT THEN <<>>
    ELSE IF TimedeltaDays(req.process_timestamp[1] - req.request_timestamp[1])
              <= FULFIL_LIMIT_DAYS
    THEN IF req.action = "request_access"
         THEN <<[fact_name |-> "request_fulfilled", arg1 |-> <<req.log_id>>,
                 arg2 |-> <<>>, arg3 |-> <<>>]>>
         ELSE IF req.action = "request_deactivation"
         THEN <<[fact_name |-> "deactivation_fulfilled", arg1 |-> <<req.log_id>>,
                 arg2 |-> <<>>, arg3 |-> <<>>]>>
         ELSE <<>>
    ELSE <<>>

preprocess_log_to_generate_facts(patient_log_df) ==
    FlatMap(FulfilledFact, patient_log_df)

-----------------------------------------------------------------------------
(* test.py: the date arithmetic of the policy *)

\* parse_time(Text, '%Y-%m-%d', Stamp): the stamp of midnight of the date;
\* fails (<<>>) on a text that is no date.
parse_time(date) == IF date = <<>> THEN <<>> ELSE <<date[1] * SecondsPerDay>>

\* Faulty variant of days_since: the days are counted inclusively.
days_since_inclusive(start_date, end_date) ==
    IF parse_time(start_date) = <<>> \/ parse_time(end_date) = <<>> THEN <<>>
    ELSE <<(parse_time(end_date)[1] - parse_time(start_date)[1]) \div SecondsPerDay + 1>>

\* days_since(Start, End, Days): Days is floor((EndStamp - StartStamp) / (24 * 3600));
\* no solution (<<>>) when a date does not parse.
days_since(start_date, end_date) ==
    IF parse_time(start_date) = <<>> \/ parse_time(end_date) = <<>> THEN <<>>
    ELSE <<(parse_time(end_date)[1] - parse_time(start_date)[1]) \div SecondsPerDay>>

-----------------------------------------------------------------------------
(* policy/policy.pl: the rules behind violation(RuleID, Principal, ObjectID). *)
(* A rule gives the sequence of its solutions, one per matching binding, in  *)
(* clause order.                                                             *)

Binding(rule, principal, object) ==
    [RuleID |-> rule, Principal |-> principal, ObjectID |-> object]

\* hipaa_auth: read_phi(P, R, _, _) by a P who is neither the owner of R nor
\* a doctor of the owner.
hipaa_auth(base) ==
    FlatMap(LAMBDA rp :
        FlatMap(LAMBDA ow :
            IF ow[3] = rp[3] /\ rp[2] # ow[2]
               /\ ~Holds(base, <<"is_doctor_of", rp[2], ow[2]>>)
            THEN <<Binding("hipaa_auth", rp[2], rp[3])>>
            ELSE <<>>,
            Clauses(base, "owns_phi_record")),
        Clauses(base, "read_phi"))

\* hipaa_min_necessary: read_attribute(P, R, Attr) where the role of P has
\* no role_can_access_type(Role, Attr).
hipaa_min_necessary(base) ==
    FlatMap(LAMBDA ra :
        FlatMap(LAMBDA hr :
            IF hr[2] = ra[2]
               /\ ~Holds(base, <<"role_can_access_type", hr[3], ra[4]>>)
            THEN <<Binding("hipaa_min_necessary", ra[2], ra[3])>>
            ELSE <<>>,
            Clauses(base, "has_role")),
        Clauses(base, "read_attribute"))

\* gdpr_art18_restriction: read_phi(P, R, Purpose, _) where the owner of R
\* has has_restriction(Owner, Purpose).
gdpr_art18_restriction(base) ==
    FlatMap(LAMBDA rp :
        FlatMap(LAMBDA ow :
            IF ow[3] = rp[3] /\ Holds(base, <<"has_restriction", ow[2], rp[4]>>)
            THEN <<Binding("gdpr_art18_restriction", rp[2], rp[3])>>
            ELSE <<>>,
            Clauses(base, "owns_phi_record")),
        Clauses(base, "read_phi"))

\* gdpr_art17_erasure: read_phi(P, R, _, _) where the owner of R has a
\* deactivation_request(Owner, ReqDate) and a deactivation is fulfilled.  The
\* rule sees the database only: read_phi carries no time of the read, and
\* deactivation_fulfilled(Id) carries the id of a request, neither its owner
\* nor the time of the fulfilment.
gdpr_art17_erasure(base) ==
    FlatMap(LAMBDA rp :
        FlatMap(LAMBDA ow :
            FlatMap(LAMBDA dr :
                IF /\ ow[3] = rp[3]
                   /\ dr[2] = ow[2]
                   /\ Clauses(base, "deactivation_fulfilled") # <<>>
                THEN <<Binding("gdpr_art17_erasure", rp[2], rp[3])>>
                ELSE <<>>,
                Clauses(base, "deactivation_request")),
            Clauses(base, "owns_phi_record")),
        Clauses(base, "read_phi"))

\* gdpr_art15_access: request_access(P, R, Id, ReqDate) where current_date
\* minus ReqDate exceeds 30 days and there is no request_fulfilled(Id).
gdpr_art15_access(base) ==
    FlatMap(LAMBDA ra :
        FlatMap(LAMBDA cd :
            IF /\ days_since(ra[5], <<cd[2]>>) # <<>>
               /\ days_since(ra[5], <<cd[2]>>)[1] > ACCESS_LIMIT_DAYS
               /\ ~Holds(base, <<"request_fulfilled", ra[4]>>)
            THEN <<Binding("gdpr_art15_access", ra[2], ra[4])>>
            ELSE <<>>,
            Clauses(base, "current_date")),
        Clauses(base, "request_access"))

\* prolog.query("violation(RuleID, Principal, ObjectID)"): all solutions,
\* rule by rule.
violation(base) ==
    hipaa_auth(base) \o hipaa_min_necessary(base)
        \o gdpr_art18_restriction(base) \o gdpr_art17_erasure(base)
        \o gdpr_art15_access(base)

\* The violation records of one entry (decoded_violation).
Stamp(entry, solutions) ==
    [k \in 1..Len(solutions) |->
        [RuleID    |-> solutions[k].RuleID,
         Principal |-> solutions[k].Principal,
         ObjectID  |-> solutions[k].ObjectID,
         timestamp |-> RecordTimestamp(entry),
         resource  |-> entry.resource]]

-----------------------------------------------------------------------------
(* scorer.py: ComplianceScorer.  A float is a fixed-point number: the        *)
(* integer n stands for n / Scale.                                           *)

Scale == 10000

\* The number of terms of the exponential series that are summed.
ExpTermCount == 14

\* a / d, rounded to the nearest integer.
RoundDiv(a, d) == (a + d \div 2) \div d

\* The product of two fixed-point numbers.
Times(a, b) == RoundDiv(a * b, Scale)

\* The terms n, n + 1, ... of the series of exp(-x); term is term n - 1.
RECURSIVE ExpSeries(_, _, _)
ExpSeries(x, n, term) ==
    IF n > ExpTermCount THEN 0
    ELSE LET next == RoundDiv(term * (0 - x), n * Scale)
         IN next + ExpSeries(x, n + 1, next)

\* np.exp(-x) for a fixed-point x.
ExpNeg(x) == Scale + ExpSeries(x, 1, Scale)

\* Faulty variant of _normalize: the exponential is not taken from 1.
_normalize_decaying(value, k_const) == ExpNeg(k_const * value)

\* ComplianceScorer._normalize: 1 - exp(-k_const * value), value a count.
_normalize(value, k_const) == Scale - ExpNeg(k_const * value)

MaxOf(S) == CHOOSE m \in S : \A n \in S : n <= m
MinOf(S) == CHOOSE m \in S : \A n \in S : m <= n

\* The timestamps of the records that are not NaT.
ValidTimes(records) ==
    {records[k].timestamp[1] : k \in {j \in 1..Len(records) : records[j].timestamp # NaT}}

\* violations_df['timestamp'].max(): NaT values are passed over; NaT when
\* there is no other.
end_date(violations) ==
    IF ValidTimes(violations) = {} THEN NaT ELSE <<MaxOf(ValidTimes(violations))>>

\* end_date - pd.Timedelta(days=time_window_days)
start_date(violations, window_days) ==
    IF end_date(violations) = NaT THEN NaT
    ELSE <<end_date(violations)[1] - window_days * SecondsPerDay>>

\* Faulty variant of principal_violations: the principal is not looked at.
principal_violations_any(violations, principal, window_days) ==
    SelectSeq(violations,
              LAMBDA v : /\ v.timestamp # NaT
                         /\ start_date(violations, window_days) # NaT
                         /\ v.timestamp[1] >= start_date(violations, window_days)[1])

\* Faulty variant of principal_violations: a row at the very start of the
\* window is left out.
principal_violations_strict(violations, principal, window_days) ==
    SelectSeq(violations,
              LAMBDA v : /\ v.Principal = principal
                         /\ v.timestamp # NaT
                         /\ start_date(violations, window_days) # NaT
                         /\ v.timestamp[1] > start_date(violations, window_days)[1])

\* The rows of the principal inside the window; a comparison with NaT is
\* false.
principal_violations(violations, principal, window_days) ==
    SelectSeq(violations,
              LAMBDA v : /\ v.Principal = principal
                         /\ v.timestamp # NaT
                         /\ start_date(violations, window_days) # NaT
                         /\ v.timestamp[1] >= start_date(violations, window_days)[1])

\* principal_violations.groupby('RuleID'): the group of one rule.
RuleGroup(rows, rule_id) == SelectSeq(rows, LAMBDA v : v.RuleID = rule_id)

\* Faulty variant of volume: the rows of the group are counted.
volume_rows(group) == Len(group)

\* group['resource'].nunique()
volume(group) == Cardinality({group[k].resource : k \in 1..Len(group)})

\* Faulty variant of duration: the first day is not counted.
duration_exclusive(group) ==
    TimedeltaDays(MaxOf(ValidTimes(group)) - MinOf(ValidTimes(group)))

\* (group['timestamp'].max() - group['timestamp'].min()).days + 1
duration(group) ==
    TimedeltaDays(MaxOf(ValidTimes(group)) - MinOf(ValidTimes(group))) + 1

breadth == 1

\* self.rule_criticalities.get(rule_id, 0.5)
criticality(self, rule_id) ==
    IF rule_id \in DOMAIN self.rule_criticalities
    THEN self.rule_criticalities[rule_id]
    ELSE Scale \div 2

\* The severity score of one rule group.
severity_score(self, group) ==
    Times(self.weights.C, criticality(self, group[1].RuleID))
      + Times(self.weights.V, _normalize(volume(group), self.k.V))
      + Times(self.weights.T, _normalize(duration(group), self.k.T))
      + Times(self.weights.B, _normalize(breadth, self.k.B))

\* The sum of the second components of a set of pairs.
RECURSIVE SumOf(_)
SumOf(S) == IF S = {} THEN 0 ELSE LET x == CHOOSE y \in S : TRUE IN x[2] + SumOf(S \ {x})

\* Faulty variant of max_severity: the severity scores of the groups are
\* added up.
max_severity_sum(self, rows) ==
    SumOf({<<rows[k].RuleID, severity_score(self, RuleGroup(rows, rows[k].RuleID))>>
             : k \in 1..Len(rows)})

\* max_severity after the loop over the groups: it starts at 0.0 and is
\* replaced by every greater severity score.
max_severity(self, rows) ==
    MaxOf({0} \cup {severity_score(self, RuleGroup(rows, rows[k].RuleID))
                     : k \in 1..Len(rows)})

\* Faulty variant of NotNegative: the score is returned as it is.
NotNegative_Unbounded(compliance_score) == compliance_score

\* max(0.0, compliance_score)
NotNegative(compliance_score) ==
    IF compliance_score < 0 THEN 0 ELSE compliance_score

\* ComplianceScorer.calculate_final_score
calculate_final_score(self, violations, principal, window_days) ==
    IF violations = <<>> THEN Scale
    ELSE IF principal_violations(violations, principal, window_days) = <<>> THEN Scale
    ELSE NotNegative(
             Scale - max_severity(self, principal_violations(violations, principal,
                                                             window_days)))

\* main.py: SCORING_WEIGHTS, NORMALIZATION_CONSTANTS, RULE_CRITICALITIES
MainScorer ==
    [weights |-> [C |-> 4000, V |-> 3000, T |-> 2000, B |-> 1000],
     k |-> [V |-> 1000, T |-> 500, B |-> 5000],
     rule_criticalities |->
        [rule \in {"hipaa_auth", "hipaa_min_necessary", "gdpr_art18_restriction",
                   "gdpr_art17_erasure", "gdpr_art15_access"} |->
            IF rule \in {"hipaa_auth", "gdpr_art18_restriction"} THEN 8000
            ELSE IF rule = "gdpr_art17_erasure" THEN 9000 ELSE 7000]]

\* The default of time_window_days.
DefaultWindowDays == 30

-----------------------------------------------------------------------------
(* main.py and Auditor.run_audit as a state machine *)

CurLog == IF run = 1 THEN staff_log ELSE patient_log

\* Faulty variant of Entry: the rows are visited from the last to the first.
Entry_Reversed == CurLog[Len(CurLog) + 1 - idx]

\* entry: the row the loop is at (for _, entry in log_dataframe.iterrows()).
Entry == CurLog[idx]

CurrentDateFact == <<"current_date", AUDIT_DATE>>

Step(op) == [op |-> op, run |-> run, idx |-> idx]

\* main: the pre-pass, the merge of the derived facts into kb_df, the
\* construction of the auditor and load_kb_facts.
LoadKnowledgeBase ==
    /\ pc = "main"
    /\ db' = load_kb_facts(<<>>, kb \o preprocess_log_to_generate_facts(patient_log))
    /\ pc' = "call"
    /\ hist' = Append(hist, Step("load"))
    /\ UNCHANGED scorer_vars
    /\ UNCHANGED <<kb, staff_log, patient_log, run, idx, action_fact,
                   attribute_facts, all_violations, staff_violations,
                   patient_violations>>

\* Faulty variant of BeginAudit: the list of the previous call is kept.
BeginAudit_KeepsList ==
    /\ pc = "call"
    /\ db' = assertz(db, CurrentDateFact)
    /\ idx' = 1
    /\ pc' = "loop"
    /\ hist' = Append(hist, Step("begin"))
    /\ UNCHANGED scorer_vars
    /\ UNCHANGED <<kb, staff_log, patient_log, run, action_fact, attribute_facts,
                   all_violations, staff_violations, patient_violations>>

\* run_audit, up to the loop: the list is emptied and current_date asserted.
BeginAudit ==
    /\ pc = "call"
    /\ all_violations' = <<>>
    /\ db' = assertz(db, CurrentDateFact)
    /\ idx' = 1
    /\ pc' = "loop"
    /\ hist' = Append(hist, Step("begin"))
    /\ UNCHANGED scorer_vars
    /\ UNCHANGED <<kb, staff_log, patient_log, run, action_fact,
                   attribute_facts, staff_violations, patient_violations>>

\* One pass of the loop that asserts nothing: an action that is no trigger,
\* or a request without request date.
SkipEvent ==
    /\ pc = "loop"
    /\ idx <= Len(CurLog)
    /\ Skipped(Entry)
    /\ idx' = idx + 1
    /\ hist' = Append(hist, Step("skip"))
    /\ UNCHANGED scorer_vars
    /\ UNCHANGED <<kb, staff_log, patient_log, db, pc, run, action_fact,
                   attribute_facts, all_violations, staff_violations,
                   patient_violations>>

\* The action fact and the attribute facts of the entry are asserted.
AssertEvent ==
    /\ pc = "loop"
    /\ idx <= Len(CurLog)
    /\ ~Skipped(Entry)
    /\ action_fact' = ActionFact(Entry)
    /\ attribute_facts' = AttributeFacts(Entry)
    /\ db' = AssertAll(assertz(db, ActionFact(Entry)), AttributeFacts(Entry))
    /\ pc' = "query"
    /\ hist' = Append(hist, Step("assert"))
    /\ UNCHANGED scorer_vars
    /\ UNCHANGED <<kb, staff_log, patient_log, run, idx, all_violations,
                   staff_violations, patient_violations>>

\* Faulty variant of Evaluate: the loop continues right after the records are
\* collected, without reaching the retraction.
Evaluate_Continue ==
    /\ pc = "query"
    /\ all_violations' = all_violations \o Stamp(Entry, violation(db))
    /\ pc' = "loop"
    /\ idx' = idx + 1
    /\ hist' = Append(hist, Step("evaluate"))
    /\ UNCHANGED scorer_vars
    /\ UNCHANGED <<kb, staff_log, patient_log, db, run, action_fact,
                   attribute_facts, staff_violations, patient_violations>>

\* Faulty variant of Evaluate: a predicate of the static layer without any
\* clause is an unknown procedure, and the query raises.
Evaluate_UnknownProcedure ==
    /\ pc = "query"
    /\ IF \E name \in {"is_doctor_of", "request_fulfilled", "deactivation_fulfilled",
                       "deactivation_request"} : Clauses(db, name) = <<>>
       THEN /\ pc' = "aborted"
            /\ UNCHANGED all_violations
       ELSE /\ pc' = "retract"
            /\ all_violations' = all_violations \o Stamp(Entry, violation(db))
    /\ hist' = Append(hist, Step("evaluate"))
    /\ UNCHANGED scorer_vars
    /\ UNCHANGED <<kb, staff_log, patient_log, db, run, idx, action_fact,
                   attribute_facts, staff_violations, patient_violations>>

\* The query returns; its solutions are decoded, stamped and appended.
Evaluate ==
    /\ pc = "query"
    /\ all_violations' = all_violations \o Stamp(Entry, violation(db))
    /\ pc' = "retract"
    /\ hist' = Append(hist, Step("evaluate"))
    /\ UNCHANGED scorer_vars
    /\ UNCHANGED <<kb, staff_log, patient_log, db, run, idx, action_fact,
                   attribute_facts, staff_violations, patient_violations>>

\* The query raises (pyswip turns an error of the engine into an exception):
\* there is no handler in run_audit nor in main, the exception leaves both.
EvaluateError ==
    /\ pc = "query"
    /\ pc' = "aborted"
    /\ hist' = Append(hist, Step("error"))
    /\ UNCHANGED scorer_vars
    /\ UNCHANGED <<kb, staff_log, patient_log, db, run, idx, action_fact,
                   attribute_facts, all_violations, staff_violations,
                   patient_violations>>

\* The attribute facts, then the action fact, are retracted with retractall.
RetractEvent ==
    /\ pc = "retract"
    /\ db' = retractall(RetractAllOf(db, attribute_facts), action_fact)
    /\ idx' = idx + 1
    /\ pc' = "loop"
    /\ hist' = Append(hist, Step("retract"))
    /\ UNCHANGED scorer_vars
    /\ UNCHANGED <<kb, staff_log, patient_log, run, action_fact,
                   attribute_facts, all_violations, staff_violations,
                   patient_violations>>

\* The outcomes of the guarded removal of one fact: retractall works; it
\* raises and the fallback retract works; both raise and the failure is
\* passed over.
RemovalOutcomes == {"retractall", "retract", "pass"}

BestEffortRemove(base, fact, outcome) ==
    IF outcome = "retractall" THEN retractall(base, fact)
    ELSE IF outcome = "retract" THEN retract(base, fact)
    ELSE base

RECURSIVE BestEffortRemoveAll(_, _, _)
BestEffortRemoveAll(base, facts, outcomes) ==
    IF facts = <<>> THEN base
    ELSE BestEffortRemoveAll(BestEffortRemove(base, Head(facts), Head(outcomes)),
                             Tail(facts), Tail(outcomes))

\* The facts of `facts` at the positions in `kept`, in order.
Pick(facts, kept) ==
    FlatMap(LAMBDA k : IF k \in kept THEN <<facts[k]>> ELSE <<>>,
            [k \in 1..Len(facts) |-> k])

\* As AssertEvent, but assertz raises for some attribute fact: the exception
\* is passed over, the fact is in attribute_facts and not in the database.
AssertEventFailure ==
    /\ pc = "loop"
    /\ idx <= Len(CurLog)
    /\ ~Skipped(Entry)
    /\ \E kept \in SUBSET (1..Len(AttributeFacts(Entry))) :
          /\ kept # 1..Len(AttributeFacts(Entry))
          /\ db' = AssertAll(assertz(db, ActionFact(Entry)),
                             Pick(AttributeFacts(Entry), kept))
    /\ action_fact' = ActionFact(Entry)
    /\ attribute_facts' = AttributeFacts(Entry)
    /\ pc' = "query"
    /\ hist' = Append(hist, Step("assert_failure"))
    /\ UNCHANGED scorer_vars
    /\ UNCHANGED <<kb, staff_log, patient_log, run, idx, all_violations,
                   staff_violations, patient_violations>>

\* Faulty variant of RetractEventFailure: the exception of a removal leaves
\* run_audit.
RetractEventFailure_Raises ==
    /\ pc = "retract"
    /\ pc' = "aborted"
    /\ hist' = Append(hist, Step("retract_failure"))
    /\ UNCHANGED scorer_vars
    /\ UNCHANGED <<kb, staff_log, patient_log, db, run, idx, action_fact,
                   attribute_facts, all_violations, staff_violations,
                   patient_violations>>

\* As RetractEvent, but the removal of some fact raises: the fallback is
\* tried, and when it raises too the exception is passed over.
RetractEventFailure ==
    /\ pc = "retract"
    /\ \E outcomes \in [1..(Len(attribute_facts) + 1) -> RemovalOutcomes] :
          /\ \E k \in DOMAIN outcomes : outcomes[k] # "retractall"
          /\ db' = BestEffortRemoveAll(db, Append(attribute_facts, action_fact),
                                       outcomes)
    /\ idx' = idx + 1
    /\ pc' = "loop"
    /\ hist' = Append(hist, Step("retract_failure"))
    /\ UNCHANGED scorer_vars
    /\ UNCHANGED <<kb, staff_log, patient_log, run, action_fact,
                   attribute_facts, all_violations, staff_violations,
                   patient_violations>>

\* After the loop: current_date is retracted and the list returned to main,
\* which goes on with the patient log or is done.
EndAudit ==
    /\ pc = "loop"
    /\ idx > Len(CurLog)
    /\ db' = retract(db, CurrentDateFact)
    /\ hist' = Append(hist, Step("end"))
    /\ IF run = 1
       THEN /\ staff_violations' = all_violations
            /\ run' = 2
            /\ pc' = "call"
            /\ UNCHANGED patient_violations
       ELSE /\ patient_violations' = all_violations
            /\ pc' = "done"
            /\ UNCHANGED <<staff_violations, run>>
    /\ UNCHANGED scorer_vars
    /\ UNCHANGED <<kb, staff_log, patient_log, idx, action_fact,
                   attribute_facts, all_violations>>

\* The program with an engine whose queries return.
Next ==
    \/ LoadKnowledgeBase
    \/ BeginAudit
    \/ SkipEvent
    \/ AssertEvent
    \/ Evaluate
    \/ RetractEvent
    \/ EndAudit

\* The program with an engine whose queries return or raise.
NextEngineError ==
    \/ LoadKnowledgeBase
    \/ BeginAudit
    \/ SkipEvent
    \/ AssertEvent
    \/ Evaluate
    \/ EvaluateError
    \/ RetractEvent
    \/ EndAudit

\* The program with an engine whose assertions of attribute facts and whose
\* removals may raise.
NextCleanupFailure ==
    \/ LoadKnowledgeBase
    \/ BeginAudit
    \/ SkipEvent
    \/ AssertEvent
    \/ AssertEventFailure
    \/ Evaluate
    \/ RetractEvent
    \/ RetractEventFailure
    \/ EndAudit

-----------------------------------------------------------------------------
(* Inputs: a knowledge base and the rows of the two logs *)

KbRow1(name, a) == [fact_name |-> name, arg1 |-> <<a>>, arg2 |-> <<>>, arg3 |-> <<>>]
KbRow2(name, a, b) == [fact_name |-> name, arg1 |-> <<a>>, arg2 |-> <<b>>, arg3 |-> <<>>]

\* A small hospital: pat_1 owns rec_1, doc_a is the doctor of pat_1, doc_b is
\* a doctor of nobody, bclerk_1 a billing clerk; pat_1 restricts research.
HospitalKb ==
    << KbRow2("has_role", "doc_a", "doctor"),
       KbRow2("has_role", "doc_b", "doctor"),
       KbRow2("has_role", "pat_1", "patient"),
       KbRow2("has_role", "bclerk_1", "billing_clerk"),
       KbRow2("is_doctor_of", "doc_a", "pat_1"),
       KbRow2("owns_phi_record", "pat_1", "rec_1"),
       KbRow1("is_phi", "rec_1"),
       KbRow2("role_can_access_type", "doctor", "clinical_note"),
       KbRow2("role_can_access_type", "doctor", "lab_result"),
       KbRow2("role_can_access_type", "billing_clerk", "billing_info"),
       KbRow2("has_unrestricted_status", "pat_1", "diagnosis"),
       KbRow2("has_restriction", "pat_1", "research") >>

Day(d) == d * SecondsPerDay
HalfDay == SecondsPerDay \div 2
Cell(t) == [ok |-> TRUE, t |-> t]
BadCell == [ok |-> FALSE, t |-> 0]

StaffRow(principal, action, purpose, attrs, timestamp) ==
    [principal |-> principal, action |-> action, resource |-> "rec_1",
     purpose |-> purpose, attrs |-> attrs, timestamp |-> timestamp]

\* Rows of a staff activity log (CSV cells, before load_staff_log).
StaffPool ==
    { StaffRow("doc_b", "read_phi", "diagnosis", {}, Cell(Day(50) + HalfDay)),
      StaffRow("doc_a", "read_phi", "diagnosis", {"lab_result"}, Cell(Day(40))),
      StaffRow("doc_b", "read_phi", "research", {}, BadCell),
      StaffRow("system", "provide_data", "", {}, Cell(Day(45))),
      StaffRow("bclerk_1", "read_phi", "billing", {"clinical_note", "billing_info"},
               Cell(Day(50) + HalfDay)) }

PatientRow(action, attrs, request_timestamp, process_timestamp) ==
    [principal |-> "pat_1", action |-> action, resource |-> "rec_1",
     attrs |-> attrs, request_timestamp |-> request_timestamp,
     process_timestamp |-> process_timestamp]

\* Rows of a patient request log (CSV cells, before load_patient_log).
PatientPool ==
    { PatientRow("request_access", {"lab_result"},
                 Cell(Day(AUDIT_DATE - 35) + HalfDay), BadCell),
      PatientRow("request_access", {}, Cell(Day(AUDIT_DATE - 30)), BadCell),
      PatientRow("request_access", {}, BadCell, BadCell),
      PatientRow("request_access", {},
                 Cell(Day(AUDIT_DATE - 40) + HalfDay),
                 Cell(Day(AUDIT_DATE - 40) + HalfDay + Day(30))),
      PatientRow("request_access", {},
                 Cell(Day(AUDIT_DATE - 31) + HalfDay),
                 Cell(Day(AUDIT_DATE - 31) + HalfDay + Day(31))),
      PatientRow("request_deactivation", {}, Cell(Day(AUDIT_DATE - 40)), BadCell) }

\* The audit date is today: a log records no fulfilment of a later day.
NotInFuture(row) ==
    row.process_timestamp.ok =>
        row.process_timestamp.t \div SecondsPerDay <= AUDIT_DATE

InitLocals ==
    /\ db = <<>>
    /\ pc = "main"
    /\ run = 1
    /\ idx = 1
    /\ action_fact = <<>>
    /\ attribute_facts = <<>>
    /\ all_violations = <<>>
    /\ staff_violations = <<>>
    /\ patient_violations = <<>>
    /\ hist = <<>>
    /\ scorer = MainScorer
    /\ principal_id = ""
    /\ time_window_days = DefaultWindowDays
    /\ final_score = <<>>

Init ==
    /\ kb = HospitalKb
    /\ staff_log \in {load_staff_log(rows) : rows \in SeqsUpTo(StaffPool, MaxStaffLog)}
    /\ patient_log \in {load_patient_log(rows) :
                          rows \in SeqsUpTo({row \in PatientPool : NotInFuture(row)},
                                           MaxPatientLog)}
    /\ InitLocals

Spec == Init /\ [][Next]_vars

-----------------------------------------------------------------------------
(* Inputs of the single-event audits: one staff row and one patient row from *)
(* wide ranges, against several knowledge bases.                             *)

\* A second patient, pat_2, owns rec_2.
WardKb ==
    HospitalKb \o << KbRow2("has_role", "pat_2", "patient"),
                     KbRow2("owns_phi_record", "pat_2", "rec_2"),
                     KbRow1("is_phi", "rec_2") >>

WithoutFact(rows, name) == SelectSeq(rows, LAMBDA row : row.fact_name # name)

\* Rows a knowledge base may or may not hold.
OptionalKbRows ==
    << KbRow2("is_doctor_of", "doc_a", "pat_1"),
       KbRow2("is_doctor_of", "doc_b", "pat_2"),
       KbRow1("request_fulfilled", "p1"),
       KbRow1("request_fulfilled", "p9") >>

RuleKbs ==
    { WithoutFact(WardKb, "is_doctor_of")
        \o FlatMap(LAMBDA k : IF k \in chosen THEN <<OptionalKbRows[k]>> ELSE <<>>,
                   <<1, 2, 3, 4>>)
      : chosen \in SUBSET (1..Len(OptionalKbRows)) }

RuleStaffRows ==
    { [StaffRow(principal, "read_phi", purpose, {}, Cell(Day(50) + HalfDay))
          EXCEPT !.resource = resource]
      : principal \in {"doc_a", "doc_b", "pat_1", "bclerk_1"},
        resource \in {"rec_1", "rec_2"},
        purpose \in {"diagnosis", "research"} }

RequestDays == (AUDIT_DATE - 30 - DaySpread)..(AUDIT_DATE - 30 + DaySpread)
TimesOfDay == {0, HalfDay, SecondsPerDay - 1}

RuleRequestCells ==
    {Cell(Day(d) + h) : d \in RequestDays, h \in TimesOfDay} \cup {BadCell}

ProcessCells(request) ==
    IF request.ok
    THEN {BadCell, Cell(request.t + Day(30)), Cell(request.t + Day(31))}
    ELSE {BadCell}

RulePatientRows ==
    { row \in UNION { { PatientRow("request_access", {}, request, process)
                        : process \in ProcessCells(request) }
                      : request \in RuleRequestCells }
      : NotInFuture(row) }

InitRule ==
    /\ kb \in RuleKbs
    /\ staff_log \in {load_staff_log(<<row>>) : row \in RuleStaffRows}
    /\ patient_log \in {load_patient_log(<<row>>) : row \in RulePatientRows}
    /\ InitLocals

RuleSpec == InitRule /\ [][Next]_vars

\* The loop is sequential code: a step that can be taken is taken.
LiveSpec == Init /\ [][Next]_vars /\ WF_vars(Next)

SpecEngineError == Init /\ [][NextEngineError]_vars

-----------------------------------------------------------------------------
(* Vocabulary of the properties *)

RecognizedActions == {"read_phi", "request_access", "request_deactivation"}

LogOf(r) == IF r = 1 THEN staff_log ELSE patient_log

\* The steps of the history that handle a row (assert it or skip it).
HandlesRow(step) == step.op \in {"assert", "skip"}

CountSteps(op, r, i) ==
    Cardinality({k \in 1..Len(hist) :
                    hist[k].op = op /\ hist[k].run = r /\ hist[k].idx = i})

CountCurrentDate == Len(Clauses(db, "current_date"))

\* The static layer: what load_kb_facts leaves in the database.
StaticBase == load_kb_facts(<<>>, kb \o preprocess_log_to_generate_facts(patient_log))

\* The database one entry is evaluated against when nothing else is in it.
EventBase(e) ==
    AssertAll(assertz(assertz(StaticBase, CurrentDateFact), ActionFact(e)),
              AttributeFacts(e))

\* The violation records one entry gives on its own.
RecordsOf(e) == IF Skipped(e) THEN <<>> ELSE Stamp(e, violation(EventBase(e)))

\* The first run_audit has returned / both have.
FirstRunReturned == (pc = "call" /\ run = 2) \/ (run = 2 /\ pc \in {"loop", "query", "retract", "done"})
BothRunsReturned == pc = "done"

-----------------------------------------------------------------------------
(* C1 *)

\* C1: no fact leakage.  Whenever the loop is between two entries, before
\* the first or after the last (run_audit not yet called, called again, or
\* returned), the database holds no read_phi, read_attribute, request_access
\* or request_deactivation fact; and while an entry is evaluated the only
\* such facts are the ones asserted for this very entry.
C1_NoFactLeakage ==
    /\ pc \in {"main", "call", "loop", "done"} => Ephemeral(db) = <<>>
    /\ pc \in {"query", "retract"} =>
           Ephemeral(db) = <<ActionFact(Entry)>> \o AttributeFacts(Entry)

\* Two entries have been audited, the first one with attribute facts, and the
\* loop is past both.
C1_Witness ==
    /\ pc = "loop"
    /\ idx = 3
    /\ ~Skipped(CurLog[1]) /\ ~Skipped(CurLog[2])
    /\ AttributeFacts(CurLog[1]) # <<>>
    /\ CountSteps("retract", run, 1) = 1
    /\ CountSteps("retract", run, 2) = 1

-----------------------------------------------------------------------------
(* C2 *)

\* C2: retraction is unconditional.  When the query of an entry has raised
\* and control has left the processing of that entry, none of the facts
\* asserted for it (action fact, read_attribute facts) is in the database.
C2_RetractOnError ==
    pc = "aborted" => Ephemeral(db) = <<>>

-----------------------------------------------------------------------------
(* C3 *)

\* The steps of one run, in the order AssertEvent, Evaluate, RetractEvent for
\* each audited row, rows handled one after the other and each at most once.
C3_Order ==
    /\ \A k \in 1..Len(hist) :
          /\ hist[k].op = "evaluate" =>
                 k > 1 /\ hist[k-1] = [hist[k] EXCEPT !.op = "assert"]
          /\ hist[k].op = "retract" =>
                 k > 1 /\ hist[k-1] = [hist[k] EXCEPT !.op = "evaluate"]
          /\ hist[k].op = "assert" /\ k < Len(hist) =>
                 hist[k+1] = [hist[k] EXCEPT !.op = "evaluate"]
          /\ hist[k].op = "evaluate" /\ k < Len(hist) =>
                 hist[k+1] = [hist[k] EXCEPT !.op = "retract"]
          /\ HandlesRow(hist[k]) /\ k > 1 =>
                 hist[k-1].op \in {"begin", "skip", "retract"}
    /\ \A r \in 1..2 : \A i \in 1..Len(LogOf(r)) :
          /\ CountSteps("assert", r, i) + CountSteps("skip", r, i) <= 1
          /\ CountSteps("evaluate", r, i) <= 1
          /\ CountSteps("retract", r, i) <= 1
    /\ pc = "query" <=> (hist # <<>> /\ hist[Len(hist)].op = "assert")
    /\ pc = "retract" <=> (hist # <<>> /\ hist[Len(hist)].op = "evaluate")

\* C3: a run follows Init -> (AssertEvent -> Evaluate -> RetractEvent)* -> Done:
\* the facts of an audited row are asserted, then the rules evaluated once,
\* then the facts retracted, before the next row is touched; every row is
\* handled at most once; and the run of every log reaches Done.
C3_StateMachine == [](C3_Order) /\ <>(pc = "done")

\* Both logs had two audited rows and main is done.
C3_Witness ==
    /\ pc = "done"
    /\ \A r \in 1..2 : \A i \in 1..2 :
          /\ Len(LogOf(r)) >= 2
          /\ CountSteps("assert", r, i) = 1
          /\ CountSteps("evaluate", r, i) = 1
          /\ CountSteps("retract", r, i) = 1

-----------------------------------------------------------------------------
(* C4 *)

\* The rows of run r that were audited, in the order they were audited.
AuditedRows(r) ==
    FlatMap(LAMBDA step : IF step.op = "assert" /\ step.run = r
                          THEN <<LogOf(r)[step.idx]>> ELSE <<>>,
            hist)

Ascending(times) ==
    \A j, k \in 1..Len(times) :
        (j < k /\ times[j] # NaT /\ times[k] # NaT) => times[j][1] <= times[k][1]

TimesOfRows(rows) == [k \in 1..Len(rows) |-> RecordTimestamp(rows[k])]
TimesOfRecords(records) == [k \in 1..Len(records) |-> records[k].timestamp]

-----------------------------------------------------------------------------
(* C5 *)

\* C5: a row whose action is none of read_phi, request_access and
\* request_deactivation is skipped: the step that handles it asserts nothing
\* and leaves the database as it is, runs no query, adds no violation record,
\* and the loop goes on with the next row.
C5_UnknownActionSkipped ==
    [][ (pc = "loop" /\ idx <= Len(CurLog) /\ Entry.action \notin RecognizedActions)
        => /\ db' = db
           /\ all_violations' = all_violations
           /\ pc' = "loop"
           /\ idx' = idx + 1
           /\ hist' = Append(hist, Step("skip")) ]_vars

\* A provide_data row was skipped and the row after it was audited.
C5_Witness ==
    \E k \in 1..Len(hist) - 1 :
        /\ hist[k].op = "skip"
        /\ LogOf(hist[k].run)[hist[k].idx].action = "provide_data"
        /\ hist[k+1].op = "assert"
        /\ hist[k+1].run = hist[k].run

-----------------------------------------------------------------------------
(* C6 *)

\* The timestamp/date field an event needs: the timestamp of a read_phi row,
\* the request timestamp of a request row.
RequiredTimestamp(e) ==
    IF e.action = "read_phi" THEN e.timestamp ELSE e.request_timestamp

\* C6: a row of a recognized action whose required timestamp/date is missing
\* or unparseable is skipped as a whole: the step that handles it asserts no
\* fact, adds no violation record, and the loop goes on with the next row.
C6_MalformedSkipped ==
    [][ (pc = "loop" /\ idx <= Len(CurLog) /\ Entry.action \in RecognizedActions
                     /\ RequiredTimestamp(Entry) = NaT)
        => /\ db' = db
           /\ all_violations' = all_violations
           /\ pc' = "loop"
           /\ idx' = idx + 1 ]_vars

-----------------------------------------------------------------------------
(* C7 *)

\* C7: every query of a run sees exactly one current_date fact, in the first
\* run as in the second; and before run_audit is called, between the two
\* runs and after the second has returned there is none.
C7_OneCurrentDate ==
    /\ pc \in {"loop", "query", "retract"} => CountCurrentDate = 1
    /\ pc \in {"main", "call", "done"} => CountCurrentDate = 0

\* A query of the second run, after a first run that has evaluated a row.
C7_Witness ==
    /\ pc = "query"
    /\ run = 2
    /\ \E k \in 1..Len(hist) : hist[k].op = "evaluate" /\ hist[k].run = 1

-----------------------------------------------------------------------------
(* C9 *)

\* What main hands to the scorer: staff_violations + patient_violations.
all_detected_violations == staff_violations \o patient_violations

Art15RecordsOf(request_id) ==
    SelectSeq(all_detected_violations,
              LAMBDA v : v.RuleID = "gdpr_art15_access" /\ v.ObjectID = request_id)

FulfilledAfter(e, days) ==
    /\ e.action = "request_access"
    /\ e.request_timestamp # NaT
    /\ e.process_timestamp # NaT
    /\ e.process_timestamp[1] = e.request_timestamp[1] + Day(days)

-----------------------------------------------------------------------------
(* C8 *)

\* The gdpr_art15_access records the run holds for the entry at hand.
Art15Fired ==
    Len(SelectSeq(all_violations,
                  LAMBDA v : /\ v.RuleID = "gdpr_art15_access"
                             /\ v.Principal = Entry.principal
                             /\ v.ObjectID = Entry.log_id))

\* Whole days from the date of the request to the audit date.
DaysSinceRequest == AUDIT_DATE - (Entry.request_timestamp[1] \div SecondsPerDay)

RequestFulfilled == Holds(db, <<"request_fulfilled", Entry.log_id>>)

-----------------------------------------------------------------------------
(* C10 *)

KbHas(name, a, b) ==
    \E k \in 1..Len(kb) :
        kb[k].fact_name = name /\ kb[k].arg1 = <<a>> /\ kb[k].arg2 = <<b>>

Patients == {"pat_1", "pat_2"}

\* P owns the record, or is a doctor of the patient who owns it.
AuthorisedReader(principal, record) ==
    \E owner \in Patients :
        /\ KbHas("owns_phi_record", owner, record)
        /\ (principal = owner \/ KbHas("is_doctor_of", principal, owner))

HipaaAuthFired ==
    \E k \in 1..Len(all_violations) :
        /\ all_violations[k].RuleID = "hipaa_auth"
        /\ all_violations[k].Principal = Entry.principal
        /\ all_violations[k].ObjectID = Entry.resource

-----------------------------------------------------------------------------
(* Inputs of the read audits: one staff row of a read, with attribute flags, *)
(* before or after a deactivation was carried out, against knowledge bases   *)
(* that differ in permissions, restrictions and deactivation requests.       *)

DeactivationRequestDay == 20
DeactivationFulfilmentDay == 30

ReadBaseKb ==
    << KbRow2("has_role", "doc_a", "doctor"),
       KbRow2("has_role", "bclerk_1", "billing_clerk"),
       KbRow2("has_role", "pat_1", "patient"),
       KbRow2("has_role", "pat_2", "patient"),
       KbRow2("is_doctor_of", "doc_a", "pat_1"),
       KbRow2("owns_phi_record", "pat_1", "rec_1"),
       KbRow2("owns_phi_record", "pat_2", "rec_2"),
       KbRow1("is_phi", "rec_1"),
       KbRow1("is_phi", "rec_2") >>

PermissionRows ==
    { << KbRow2("role_can_access_type", "doctor", "clinical_note"),
         KbRow2("role_can_access_type", "doctor", "lab_result"),
         KbRow2("role_can_access_type", "billing_clerk", "billing_info") >>,
      << KbRow2("role_can_access_type", "doctor", "clinical_note"),
         KbRow2("role_can_access_type", "billing_clerk", "billing_info") >>,
      << >> }

RestrictionRows ==
    { << KbRow2("has_restriction", "pat_1", "research"),
         KbRow2("has_unrestricted_status", "pat_2", "research") >>,
      << KbRow2("has_unrestricted_status", "pat_1", "research"),
         KbRow2("has_restriction", "pat_2", "diagnosis") >>,
      << >> }

LifecycleRows ==
    { << KbRow2("deactivation_request", "pat_1", DeactivationRequestDay) >>, << >> }

ReadKbs ==
    { ReadBaseKb \o permissions \o restrictions \o lifecycle
      : permissions \in PermissionRows, restrictions \in RestrictionRows,
        lifecycle \in LifecycleRows }

ReadAttrs ==
    { {}, {"lab_result"}, {"clinical_note", "billing_info"},
      {"lab_result", "clinical_note", "billing_info"} }

ReadStaffRows ==
    { [StaffRow(principal, "read_phi", purpose, attrs, Cell(Day(d) + HalfDay))
          EXCEPT !.resource = resource]
      : principal \in {"doc_a", "bclerk_1", "pat_1", "system"},
        resource \in {"rec_1", "rec_2"},
        purpose \in {"diagnosis", "research"},
        attrs \in ReadAttrs,
        d \in {DeactivationFulfilmentDay - 5, DeactivationFulfilmentDay + 20} }

ReadPatientRows ==
    { PatientRow("request_deactivation", {}, Cell(Day(DeactivationRequestDay)),
                 Cell(Day(DeactivationFulfilmentDay))),
      PatientRow("request_deactivation", {}, Cell(Day(DeactivationRequestDay)), BadCell),
      PatientRow("request_deactivation", {"lab_result"}, BadCell, BadCell) }

InitRead ==
    /\ kb \in ReadKbs
    /\ staff_log \in {load_staff_log(<<row>>) : row \in ReadStaffRows}
    /\ patient_log \in {load_patient_log(<<row>>) : row \in ReadPatientRows}
    /\ InitLocals

ReadSpec == InitRead /\ [][Next]_vars

\* The records of a rule the run holds for the entry at hand.
RecordsOfRule(rule) ==
    SelectSeq(all_violations,
              LAMBDA v : /\ v.RuleID = rule
                         /\ v.Principal = Entry.principal
                         /\ v.ObjectID = Entry.resource)

Roles == {"doctor", "billing_clerk", "patient"}

-----------------------------------------------------------------------------
(* C11 *)

\* The flagged attributes of the entry that a role of its principal has no
\* role_can_access_type fact for.
ForbiddenAttributes(e) ==
    { attr \in e.attrs :
        \E role \in Roles : /\ KbHas("has_role", e.principal, role)
                            /\ ~KbHas("role_can_access_type", role, attr) }

\* C11: when the rules have been evaluated for a read_phi event,
\* hipaa_min_necessary has fired once for each flagged attribute for which
\* the role of the reader (has_role) has no role_can_access_type fact, and
\* for no other: when the role may access every flagged attribute the rule
\* has not fired.
C11_MinNecessary ==
    (pc = "retract" /\ Entry.action = "read_phi") =>
        Len(RecordsOfRule("hipaa_min_necessary")) = Cardinality(ForbiddenAttributes(Entry))

\* A billing clerk has read a clinical note and billing information: the
\* rule has fired for the first and not for the second.
C11_Witness ==
    /\ pc = "retract"
    /\ Entry.action = "read_phi"
    /\ Entry.principal = "bclerk_1"
    /\ Entry.attrs = {"clinical_note", "billing_info"}
    /\ KbHas("role_can_access_type", "billing_clerk", "billing_info")
    /\ ForbiddenAttributes(Entry) = {"clinical_note"}
    /\ Len(RecordsOfRule("hipaa_min_necessary")) = 1

-----------------------------------------------------------------------------
(* C12 *)

\* The patient who owns the record has restricted the purpose.
OwnerRestricts(record, purpose) ==
    \E owner \in Patients :
        /\ KbHas("owns_phi_record", owner, record)
        /\ KbHas("has_restriction", owner, purpose)

\* C12: when the rules have been evaluated for a read_phi event,
\* gdpr_art18_restriction has fired for it if and only if the patient who
\* owns the record has a has_restriction fact for the purpose of this read,
\* whoever the reader is (the doctor of the owner too); a read for a purpose
\* the owner has not restricted has not fired it.
C12_Art18Restriction ==
    (pc = "retract" /\ Entry.action = "read_phi") =>
        (RecordsOfRule("gdpr_art18_restriction") # <<>>
            <=> OwnerRestricts(Entry.resource, Entry.purpose))

\* The doctor of pat_1 has read rec_1 for research, which pat_1 restricts,
\* and the rule has fired once.
C12_Witness ==
    /\ pc = "retract"
    /\ Entry.action = "read_phi"
    /\ Entry.principal = "doc_a"
    /\ Entry.resource = "rec_1"
    /\ Entry.purpose = "research"
    /\ KbHas("is_doctor_of", "doc_a", "pat_1")
    /\ KbHas("has_restriction", "pat_1", "research")
    /\ Len(RecordsOfRule("gdpr_art18_restriction")) = 1

-----------------------------------------------------------------------------
(* C13 *)

\* The patient who owns the record has a deactivation_request fact, the
\* request of that patient in the log was fulfilled in time, and time t is
\* after the fulfilment.
DeactivatedBefore(record, t) ==
    \E owner \in Patients :
        /\ KbHas("owns_phi_record", owner, record)
        /\ \E k \in 1..Len(kb) : /\ kb[k].fact_name = "deactivation_request"
                                 /\ kb[k].arg1 = <<owner>>
        /\ \E k \in 1..Len(patient_log) :
              /\ patient_log[k].action = "request_deactivation"
              /\ patient_log[k].principal = owner
              /\ FulfilledFact(patient_log[k]) # <<>>
              /\ t # NaT
              /\ t[1] > patient_log[k].process_timestamp[1]

Art17Fired ==
    \E k \in 1..Len(all_violations) :
        /\ all_violations[k].RuleID = "gdpr_art17_erasure"
        /\ all_violations[k].Principal = Entry.principal

\* C13: gdpr_art17_erasure is triggered by read_phi events only, and when the
\* rules have been evaluated for a read_phi event it has fired if and only
\* if the patient who owns the record has a deactivation_request whose
\* request is deactivation_fulfilled and the timestamp of the read is after
\* the fulfilment: not for a read before the fulfilment, not for a patient
\* without fulfilled deactivation request.
C13_Art17Erasure ==
    pc = "retract" =>
        /\ Entry.action # "read_phi" => ~Art17Fired
        /\ Entry.action = "read_phi" =>
              (Art17Fired <=> DeactivatedBefore(Entry.resource, Entry.timestamp))

-----------------------------------------------------------------------------
(* Inputs with repeated rows: a knowledge-base file that holds a row twice,  *)
(* or holds a fulfilment fact the pre-pass derives again.                    *)

RepeatedKbRows ==
    { << >>,
      << KbRow2("has_role", "doc_b", "doctor") >>,
      << KbRow2("owns_phi_record", "pat_1", "rec_1") >>,
      << KbRow2("has_restriction", "pat_1", "research") >>,
      << KbRow1("request_fulfilled", "p1") >> }

RepeatedKbs == { HospitalKb \o repeated : repeated \in RepeatedKbRows }

RepeatedStaffRows ==
    { StaffRow(principal, "read_phi", purpose, attrs, Cell(Day(50) + HalfDay))
      : principal \in {"doc_b", "bclerk_1", "pat_1"},
        purpose \in {"diagnosis", "research"},
        attrs \in ReadAttrs }

InitRepeated ==
    /\ kb \in RepeatedKbs
    /\ staff_log \in {load_staff_log(<<row>>) : row \in RepeatedStaffRows}
    /\ patient_log \in {load_patient_log(<<row>>) :
                          row \in {r \in PatientPool : NotInFuture(r)}}
    /\ InitLocals

RepeatedSpec == InitRepeated /\ [][Next]_vars

-----------------------------------------------------------------------------
(* C14 *)

\* The distinct bindings of the body of each rule for an entry, read off the
\* rows of the knowledge base.
AuthBindings(e) ==
    { owner \in Patients :
        /\ KbHas("owns_phi_record", owner, e.resource)
        /\ e.principal # owner
        /\ ~KbHas("is_doctor_of", e.principal, owner) }

MinNecessaryBindings(e) ==
    { <<role, attr>> \in Roles \X e.attrs :
        /\ KbHas("has_role", e.principal, role)
        /\ ~KbHas("role_can_access_type", role, attr) }

RestrictionBindings(e) ==
    { owner \in Patients :
        /\ KbHas("owns_phi_record", owner, e.resource)
        /\ KbHas("has_restriction", owner, e.purpose) }

\* C14: when the rules have been evaluated for a read_phi event, each rule
\* has given exactly one record per distinct matching binding: all of them
\* (k flagged attributes the role of the reader may not access give k
\* hipaa_min_necessary records) and none of them twice.
C14_OnePerBinding ==
    (pc = "retract" /\ Entry.action = "read_phi") =>
        /\ Len(RecordsOfRule("hipaa_auth")) = Cardinality(AuthBindings(Entry))
        /\ Len(RecordsOfRule("hipaa_min_necessary"))
              = Cardinality(MinNecessaryBindings(Entry))
        /\ Len(RecordsOfRule("gdpr_art18_restriction"))
              = Cardinality(RestrictionBindings(Entry))

-----------------------------------------------------------------------------
(* C16 *)

RECURSIVE Dedup(_)
Dedup(base) ==
    IF base = <<>> THEN <<>>
    ELSE LET front == Dedup(SubSeq(base, 1, Len(base) - 1))
             last == base[Len(base)]
         IN IF Holds(front, last) THEN front ELSE Append(front, last)

Static(base) == SelectSeq(base, LAMBDA f : f[1] \notin EphemeralNames \cup {"current_date"})

\* C16: the static layer holds no fact twice, whether a row of the knowledge
\* base is repeated or the pre-pass derives a fact the knowledge base holds;
\* and the records of an event are the ones the rules give with one copy of
\* each static fact.
C16_StaticDeduplicated ==
    /\ pc # "main" => Static(db) = Dedup(Static(db))
    /\ pc = "retract" =>
          SubSeq(all_violations, Len(all_violations) - Len(violation(db)) + 1,
                 Len(all_violations))
             = Stamp(Entry, violation(Dedup(db)))

-----------------------------------------------------------------------------
(* Inputs of the pre-pass: request rows and other rows of the patient log    *)
(* with a processing time before, at, or after the time of the request.      *)

PrepassRequestTime == Day(20) + HalfDay

PrepassProcessCells ==
    { BadCell,
      Cell(PrepassRequestTime - Day(1)),
      Cell(PrepassRequestTime),
      Cell(PrepassRequestTime + Day(30)),
      Cell(PrepassRequestTime + Day(30) + HalfDay),
      Cell(PrepassRequestTime + Day(31)) }

PrepassPatientRows ==
    { PatientRow(action, {}, Cell(PrepassRequestTime), process)
      : action \in {"request_access", "request_deactivation", "provide_data"},
        process \in PrepassProcessCells }
    \cup
    { PatientRow(action, {}, BadCell, process)
      : action \in {"request_access", "request_deactivation", "provide_data"},
        process \in {BadCell, Cell(PrepassRequestTime)} }

InitPrepass ==
    /\ kb = HospitalKb
    /\ staff_log = load_staff_log(
                      <<StaffRow("doc_b", "read_phi", "diagnosis", {}, Cell(Day(50)))>>)
    /\ patient_log \in {load_patient_log(rows) :
                          rows \in SeqsUpTo(PrepassPatientRows, MaxPatientLog)}
    /\ InitLocals

PrepassSpec == InitPrepass /\ [][Next]_vars

-----------------------------------------------------------------------------
(* C15 *)

\* The row has a fulfilment that is not earlier than the request and at most
\* 30 whole days after it.
TimelyFulfilment(e) ==
    /\ e.request_timestamp # NaT
    /\ e.process_timestamp # NaT
    /\ e.process_timestamp[1] >= e.request_timestamp[1]
    /\ (e.process_timestamp[1] - e.request_timestamp[1]) \div SecondsPerDay <= 30

\* C15: from the moment the knowledge base is loaded, hence before the first
\* event is audited, the database holds request_fulfilled(id) exactly for
\* the request_access rows, and deactivation_fulfilled(id) exactly for the
\* request_deactivation rows, that have a later fulfilment at most 30 days
\* after the request: none for a request without fulfilment, with a
\* fulfilment more than 30 days later, or with one dated before the request.
C15_FulfilmentFacts ==
    pc # "main" =>
        \A k \in 1..Len(patient_log) :
            /\ Holds(db, <<"request_fulfilled", patient_log[k].log_id>>)
                  <=> (patient_log[k].action = "request_access"
                          /\ TimelyFulfilment(patient_log[k]))
            /\ Holds(db, <<"deactivation_fulfilled", patient_log[k].log_id>>)
                  <=> (patient_log[k].action = "request_deactivation"
                          /\ TimelyFulfilment(patient_log[k]))

-----------------------------------------------------------------------------
(* C17 *)

InitCleanup ==
    /\ kb = HospitalKb
    /\ staff_log \in {load_staff_log(rows) : rows \in SeqsUpTo(StaffPool, MaxStaffLog)}
    /\ patient_log \in {load_patient_log(<<row>>) :
                          row \in {r \in PatientPool :
                                      r.attrs # {} \/ ~r.request_timestamp.ok}}
    /\ InitLocals

\* The loop is sequential code: a step that can be taken is taken.
CleanupFailureSpec ==
    InitCleanup /\ [][NextCleanupFailure]_vars /\ WF_vars(NextCleanupFailure)

-----------------------------------------------------------------------------
(* C18 *)

Unpopulated(name) == Clauses(db, name) = <<>>

-----------------------------------------------------------------------------
(* The scoring of a principal: main hands the violations of both audits to   *)
(* calculate_final_score.  The inputs are violation lists, scorers and       *)
(* principals drawn from small sets.                                         *)

Violation(rule, principal, resource, timestamp) ==
    [RuleID |-> rule, Principal |-> principal, ObjectID |-> resource,
     timestamp |-> timestamp, resource |-> resource]

ViolationPool ==
    { Violation("hipaa_auth", "doc_1", "rec_1", <<Day(50)>>),
      Violation("hipaa_auth", "doc_1", "rec_2", <<Day(54) + HalfDay>>),
      Violation("gdpr_art18_restriction", "doc_1", "rec_1", <<Day(50)>>),
      Violation("hipaa_auth", "doc_1", "rec_1", <<Day(10)>>),
      Violation("hipaa_min_necessary", "doc_1", "rec_1", <<Day(20)>>),
      Violation("hipaa_auth", "doc_2", "rec_1", <<Day(58)>>),
      Violation("custom_rule", "doc_2", "rec_2", <<Day(28)>>),
      Violation("gdpr_art18_restriction", "pat_1", "rec_2", NaT) }

\* Weights that add up to 3 and a criticality of 2.
HeavyScorer ==
    [MainScorer EXCEPT !.weights = [C |-> 12000, V |-> 9000, T |-> 6000, B |-> 3000],
                       !.rule_criticalities["hipaa_auth"] = 20000]

\* Negative weights.
NegativeScorer ==
    [MainScorer EXCEPT !.weights = [C |-> -4000, V |-> -3000, T |-> -2000, B |-> -1000]]

Scorers == {MainScorer, HeavyScorer, NegativeScorer}

ScoredPrincipals == {"doc_1", "doc_2", "doc_3"}

InitScore ==
    /\ kb = <<>>
    /\ staff_log = <<>>
    /\ patient_log = <<>>
    /\ db = <<>>
    /\ pc = "scoring"
    /\ run = 2
    /\ idx = 1
    /\ action_fact = <<>>
    /\ attribute_facts = <<>>
    /\ all_violations = <<>>
    /\ staff_violations \in SeqsUpTo(ViolationPool, MaxViolations)
    /\ patient_violations = <<>>
    /\ hist = <<>>
    /\ scorer \in Scorers
    /\ principal_id \in ScoredPrincipals
    /\ time_window_days \in {DefaultWindowDays, 7}
    /\ final_score = <<>>

\* main: final_score = scorer.calculate_final_score(all_detected_violations,
\* principal_id=principal)
Score ==
    /\ pc = "scoring"
    /\ final_score' = <<calculate_final_score(scorer, staff_violations \o patient_violations,
                                              principal_id, time_window_days)>>
    /\ pc' = "scored"
    /\ hist' = Append(hist, Step("score"))
    /\ UNCHANGED <<kb, staff_log, patient_log, db, run, idx, action_fact,
                   attribute_facts, all_violations, staff_violations,
                   patient_violations, scorer, principal_id, time_window_days>>

NextScore == Score

ScoreSpec == InitScore /\ [][NextScore]_vars

-----------------------------------------------------------------------------
(* C19 *)

\* The latest timestamp of all the records is t, and the record is of the
\* scored principal and not older than the window that ends at t.
InWindowOfPrincipal(v) ==
    /\ v.Principal = principal_id
    /\ v.timestamp # NaT
    /\ \A k \in 1..Len(all_detected_violations) :
          all_detected_violations[k].timestamp # NaT =>
              v.timestamp[1] >= all_detected_violations[k].timestamp[1]
                                   - time_window_days * SecondsPerDay

\* C19: calculate_final_score has returned, and returned exactly 1.0, when
\* the violation list is empty and also when it is not empty but holds no
\* violation of the scored principal inside the time window.
C19_PerfectScore ==
    pc = "scored" =>
        /\ final_score # <<>>
        /\ (\A k \in 1..Len(all_detected_violations) :
                ~InWindowOfPrincipal(all_detected_violations[k]))
              => final_score = <<Scale>>

\* The list holds violations of other principals and one of the scored
\* principal that is older than the window; the score is 1.0.
C19_Witness ==
    /\ pc = "scored"
    /\ scorer = MainScorer
    /\ \E k \in 1..Len(all_detected_violations) :
          /\ all_detected_violations[k].Principal = principal_id
          /\ all_detected_violations[k].timestamp # NaT
    /\ \E k \in 1..Len(all_detected_violations) :
          all_detected_violations[k].Principal # principal_id
    /\ \A k \in 1..Len(all_detected_violations) :
          ~InWindowOfPrincipal(all_detected_violations[k])
    /\ final_score = <<Scale>>

-----------------------------------------------------------------------------
(* C20 *)

ValidTimestamps(records) == \A k \in 1..Len(records) : records[k].timestamp # NaT

\* C20: for a list that is not empty and whose timestamps are all valid the
\* returned score lies in [0, 1], for every principal: not below 0 when the
\* maximum severity is above 1, not above 1 whatever the weights and the
\* criticalities.
C20_ScoreInRange ==
    (pc = "scored" /\ all_detected_violations # <<>>
                   /\ ValidTimestamps(all_detected_violations)) =>
        /\ final_score[1] >= 0
        /\ final_score[1] <= Scale

\* The maximum severity of the scored principal is above 1 and the score is 0.
C20_Witness ==
    /\ pc = "scored"
    /\ all_detected_violations # <<>>
    /\ ValidTimestamps(all_detected_violations)
    /\ max_severity(scorer, principal_violations(all_detected_violations, principal_id,
                                                 time_window_days)) > Scale
    /\ final_score = <<0>>

-----------------------------------------------------------------------------
(* C21 *)

\* Three hipaa_auth violations of doc_1 on three resources, the first and the
\* last four days apart: a span of five days.
ExampleViolations ==
    { Violation("hipaa_auth", "doc_1", "rec_1", <<Day(50)>>),
      Violation("hipaa_auth", "doc_1", "rec_2", <<Day(52)>>),
      Violation("hipaa_auth", "doc_1", "rec_3", <<Day(54)>>) }

ExamplePool ==
    ExampleViolations
      \cup { Violation("hipaa_auth", "doc_2", "rec_1", <<Day(53)>>),
             Violation("hipaa_auth", "doc_1", "rec_1", <<Day(51) + HalfDay>>) }

InitExample ==
    /\ kb = <<>>
    /\ staff_log = <<>>
    /\ patient_log = <<>>
    /\ db = <<>>
    /\ pc = "scoring"
    /\ run = 2
    /\ idx = 1
    /\ action_fact = <<>>
    /\ attribute_facts = <<>>
    /\ all_violations = <<>>
    /\ staff_violations \in SeqsUpTo(ExamplePool, MaxViolations)
    /\ patient_violations = <<>>
    /\ hist = <<>>
    /\ scorer = MainScorer
    /\ principal_id \in {"doc_1", "doc_2"}
    /\ time_window_days = DefaultWindowDays
    /\ final_score = <<>>

ExampleSpec == InitExample /\ [][NextScore]_vars

\* x and y agree to three decimal places.
About(x, y) == x - y \in -5..5

\* doc_1 is scored with the shipped configuration and its violations are the
\* three of the example.
WorkedExample ==
    /\ pc = "scored"
    /\ scorer = MainScorer
    /\ principal_id = "doc_1"
    /\ {v \in Range(all_detected_violations) : v.Principal = "doc_1"} = ExampleViolations

ExampleSeverity ==
    max_severity(scorer, principal_violations(all_detected_violations, principal_id,
                                              time_window_days))

\* The normalized volume, duration and breadth of the example are 0.259,
\* 0.221 and 0.393.
ExampleComponents ==
    /\ About(_normalize(3, scorer.k.V), 2590)
    /\ About(_normalize(5, scorer.k.T), 2210)
    /\ About(_normalize(breadth, scorer.k.B), 3930)

\* C21 as stated: in the worked example the normalized components are 0.259,
\* 0.221 and 0.393, the severity is 0.4774 and the score about 0.5226.
C21_WorkedExample ==
    WorkedExample =>
        /\ ExampleComponents
        /\ About(ExampleSeverity, 4774)
        /\ About(final_score[1], 5226)

\* C21 amended: in the worked example the normalized components are 0.259,
\* 0.221 and 0.393, the severity is 0.4813 and the score about 0.5187.
C21_WorkedExampleSum ==
    WorkedExample =>
        /\ ExampleComponents
        /\ About(ExampleSeverity, 4813)
        /\ About(final_score[1], 5187)

\* The example has been scored.
C21_Witness ==
    /\ WorkedExample
    /\ Len(all_detected_violations) = 3
    /\ final_score # <<>>

-----------------------------------------------------------------------------
(* C22 *)

\* Violations around the start of a window that ends on day 58.
WindowPool ==
    { Violation("hipaa_auth", "doc_1", "rec_1", <<Day(28)>>),
      Violation("hipaa_auth", "doc_1", "rec_2", <<Day(27) + HalfDay>>),
      Violation("hipaa_auth", "doc_1", "rec_3", <<Day(40)>>),
      Violation("gdpr_art18_restriction", "doc_1", "rec_1", <<Day(51)>>),
      Violation("hipaa_auth", "doc_2", "rec_1", <<Day(58)>>),
      Violation("hipaa_min_necessary", "doc_2", "rec_1", <<Day(35)>>) }

InitWindow ==
    /\ kb = <<>>
    /\ staff_log = <<>>
    /\ patient_log = <<>>
    /\ db = <<>>
    /\ pc = "scoring"
    /\ run = 2
    /\ idx = 1
    /\ action_fact = <<>>
    /\ attribute_facts = <<>>
    /\ all_violations = <<>>
    /\ staff_violations \in SeqsUpTo(WindowPool, MaxViolations)
    /\ patient_violations = <<>>
    /\ hist = <<>>
    /\ scorer = MainScorer
    /\ principal_id \in {"doc_1", "doc_2"}
    /\ time_window_days \in {DefaultWindowDays, 7}
    /\ final_score = <<>>

WindowSpec == InitWindow /\ [][NextScore]_vars

\* The violations of the scored principal inside the closed window.
WindowRows == SelectSeq(all_detected_violations, InWindowOfPrincipal)

\* t is the latest timestamp over all violations.
IsWindowEnd(t) ==
    /\ \E k \in 1..Len(all_detected_violations) : all_detected_violations[k].timestamp = <<t>>
    /\ \A k \in 1..Len(all_detected_violations) :
          all_detected_violations[k].timestamp # NaT =>
              all_detected_violations[k].timestamp[1] <= t

\* C22: the window ends at the latest timestamp over the violations of all
\* principals and starts time_window_days earlier; the score of a principal
\* is determined by that principal's violations inside the closed window
\* alone: a violation exactly at the start counts, an older one and those of
\* other principals do not.
C22_ClosedWindow ==
    pc = "scored" =>
        final_score[1] = IF WindowRows = <<>> THEN Scale
                         ELSE NotNegative(Scale - max_severity(scorer, WindowRows))

\* The window end is set by another principal; the scored principal has one
\* violation exactly at the window start and an older one; the score is that
\* of the one at the start alone.
C22_Witness ==
    /\ pc = "scored"
    /\ \E t \in {Day(58)} :
          /\ IsWindowEnd(t)
          /\ \E k \in 1..Len(all_detected_violations) :
                /\ all_detected_violations[k].timestamp = <<t>>
                /\ all_detected_violations[k].Principal # principal_id
          /\ \E k \in 1..Len(all_detected_violations) :
                /\ all_detected_violations[k].Principal = principal_id
                /\ all_detected_violations[k].timestamp
                      = <<t - time_window_days * SecondsPerDay>>
                /\ final_score
                      = <<Scale - severity_score(scorer, <<all_detected_violations[k]>>)>>
          /\ \E k \in 1..Len(all_detected_violations) :
                /\ all_detected_violations[k].Principal = principal_id
                /\ all_detected_violations[k].timestamp # NaT
                /\ all_detected_violations[k].timestamp[1]
                      < t - time_window_days * SecondsPerDay
    /\ final_score[1] < Scale

-----------------------------------------------------------------------------
(* C23 *)

\* The rules of the scored principal's violations inside the window, and the
\* severity scores of their groups.
WindowRules == {WindowRows[k].RuleID : k \in 1..Len(WindowRows)}

GroupSeverities == {severity_score(scorer, RuleGroup(WindowRows, r)) : r \in WindowRules}

\* w is a violation of the scored principal inside the current window, under
\* a rule the principal has no violation of yet, and the severity of the group
\* it forms is not greater than m.
SecondRuleWithin(w, m) ==
    /\ w.Principal = principal_id
    /\ w.RuleID \notin WindowRules
    /\ w.timestamp # NaT
    /\ \E t \in ValidTimes(all_detected_violations) :
          /\ IsWindowEnd(t)
          /\ w.timestamp[1] <= t
          /\ w.timestamp[1] >= t - time_window_days * SecondsPerDay
    /\ severity_score(scorer, <<w>>) <= m

\* The score is max(0, 1 - m), and no violation under a second rule whose
\* group is not more severe than m changes it.
WorstOffense(m) ==
    /\ final_score[1] = NotNegative(Scale - m)
    /\ \A w \in ViolationPool :
          SecondRuleWithin(w, m) =>
              calculate_final_score(scorer, Append(all_detected_violations, w),
                                    principal_id, time_window_days) = final_score[1]

\* C23 as stated: the score is max(0, 1 - M), M the maximum severity over the
\* rule groups of the principal, not their sum; a violation under a second
\* rule whose group severity is not greater than M leaves the score as it is.
C23_WorstOffense ==
    (pc = "scored" /\ WindowRows # <<>>) => WorstOffense(MaxOf(GroupSeverities))

\* C23 amended: the same, with M taken as 0 when no group has a positive
\* severity.
C23_WorstOffenseFloor ==
    (pc = "scored" /\ WindowRows # <<>>) => WorstOffense(MaxOf(GroupSeverities \cup {0}))

\* The principal has groups of two rules with different severities, the score
\* is 1 minus the greater one, and there is a violation under a third rule
\* that is not more severe.
C23_Witness ==
    /\ pc = "scored"
    /\ Cardinality(WindowRules) = 2
    /\ Cardinality(GroupSeverities) = 2
    /\ final_score[1] = Scale - MaxOf(GroupSeverities)
    /\ final_score[1] > 0
    /\ \E w \in ViolationPool : SecondRuleWithin(w, MaxOf(GroupSeverities))

-----------------------------------------------------------------------------
(* C24 *)

\* One log, of staff rows or of patient rows, is handed to both calls of
\* run_audit.
InitTwice ==
    /\ kb = HospitalKb
    /\ staff_log \in {load_staff_log(rows) : rows \in SeqsUpTo(StaffPool, MaxStaffLog)}
                       \cup {load_patient_log(rows) :
                               rows \in SeqsUpTo({row \in PatientPool : NotInFuture(row)},
                                                MaxPatientLog)}
    /\ patient_log = staff_log
    /\ InitLocals

TwiceSpec == InitTwice /\ [][Next]_vars

\* C24: two calls of run_audit on the same auditor, over the same static
\* facts and the same log, return the same violation sequence; between the
\* calls the database is what load_kb_facts made of it.
C24_Idempotent ==
    /\ (run = 2 /\ pc = "call") =>
          db = load_kb_facts(<<>>, kb \o preprocess_log_to_generate_facts(patient_log))
    /\ pc = "done" => patient_violations = staff_violations

\* Both calls have returned the same two or more violations.
C24_Witness ==
    /\ pc = "done"
    /\ Len(staff_violations) >= 2
    /\ patient_violations = staff_violations

-----------------------------------------------------------------------------
(* C25 *)

\* The timestamp of an event: the timestamp field of a read, the request
\* timestamp of a request.
EventTimestamp(entry) ==
    IF entry.action = "read_phi" THEN entry.timestamp ELSE entry.request_timestamp

\* The records appended for the event under evaluation: the last ones of the
\* list, one for each solution of the query.
RecordsOfEvent ==
    SubSeq(all_violations, Len(all_violations) - Len(violation(db)) + 1,
           Len(all_violations))

\* C25: every record found during the evaluation of an event carries the
\* timestamp and the resource of that event, and the rule id, the principal
\* and the object id of the solution it was made from.
C25_StampedRecords ==
    pc = "retract" =>
        /\ Len(RecordsOfEvent) = Len(violation(db))
        /\ \A k \in 1..Len(RecordsOfEvent) :
              /\ RecordsOfEvent[k].timestamp = EventTimestamp(Entry)
              /\ RecordsOfEvent[k].resource = Entry.resource
              /\ RecordsOfEvent[k].RuleID = violation(db)[k].RuleID
              /\ RecordsOfEvent[k].Principal = violation(db)[k].Principal
              /\ RecordsOfEvent[k].ObjectID = violation(db)[k].ObjectID

\* A request event has just been evaluated and a record with its request
\* timestamp appended; the staff log gave a record with the timestamp of a
\* read.
C25_Witness ==
    /\ pc = "retract"
    /\ run = 2
    /\ RecordsOfEvent # <<>>
    /\ RecordsOfEvent[1].timestamp = Entry.request_timestamp
    /\ RecordsOfEvent[1].timestamp # NaT
    /\ \E k \in 1..Len(staff_violations) :
          /\ staff_violations[k].timestamp # NaT
          /\ \E j \in 1..Len(staff_log) :
                /\ staff_log[j].action = "read_phi"
                /\ staff_log[j].timestamp = staff_violations[k].timestamp

-----------------------------------------------------------------------------
(* C26 *)

\* The clauses of the database that are facts of the static layer.
StaticClauses == SelectSeq(db, LAMBDA f : Holds(StaticBase, f))

\* The facts asserted for an entry.
EventFacts(e) == IF Skipped(e) THEN <<>> ELSE <<ActionFact(e)>> \o AttributeFacts(e)

\* C26: once the knowledge base is loaded the static facts in the database
\* are the ones load_kb_facts asserted, at every point of both audits; no
\* fact of an event, nor current_date, is a static fact, so no retraction
\* removes one.
C26_StaticUnchanged ==
    pc # "main" =>
        /\ StaticClauses = StaticBase
        /\ ~Holds(StaticBase, CurrentDateFact)
        /\ \A log \in {staff_log, patient_log} : \A k \in 1..Len(log) :
              \A j \in 1..Len(EventFacts(log[k])) :
                  ~Holds(StaticBase, EventFacts(log[k])[j])

\* Both audits are over, events of both logs were asserted and retracted,
\* and the static layer holds a fulfilment fact besides the knowledge base.
C26_Witness ==
    /\ pc = "done"
    /\ \E k \in 1..Len(staff_log) : EventFacts(staff_log[k]) # <<>>
    /\ \E k \in 1..Len(patient_log) : EventFacts(patient_log[k]) # <<>>
    /\ Clauses(db, "request_fulfilled") # <<>>
    /\ db = StaticBase

-----------------------------------------------------------------------------
(* C27 *)

\* The number of clauses of the database equal to the fact.
CountOf(fact) == Len(SelectSeq(db, LAMBDA f : FactEq(f, fact)))

\* C27: while a read_phi event is evaluated the database holds one action
\* fact, one read_attribute(principal, resource, attr) for each flagged
\* attribute and none for another; while a request event is evaluated it
\* holds one action fact and no read_attribute fact, whatever the flags of
\* the row, and the event gets no hipaa_min_necessary record.
C27_AttributeFacts ==
    /\ pc = "query" =>
          /\ Len(Ephemeral(db)) - Len(Clauses(db, "read_attribute")) = 1
          /\ Len(Clauses(db, Entry.action)) = 1
          /\ \A attr \in Range(AttributeColumns) :
                CountOf(<<"read_attribute", Entry.principal, Entry.resource, attr>>)
                   = IF Entry.action = "read_phi" /\ attr \in Entry.attrs THEN 1 ELSE 0
          /\ Len(Clauses(db, "read_attribute"))
                = IF Entry.action = "read_phi" THEN Cardinality(Entry.attrs) ELSE 0
    /\ (pc = "retract" /\ Entry.action # "read_phi") =>
          \A k \in 1..Len(RecordsOfEvent) : RecordsOfEvent[k].RuleID # "hipaa_min_necessary"

\* A request whose row has a flag set is under evaluation with no
\* read_attribute fact in the database; a read with two flags set was
\* audited before and got records of hipaa_min_necessary.
C27_Witness ==
    /\ pc = "query"
    /\ run = 2
    /\ Entry.action = "request_access"
    /\ Entry.attrs # {}
    /\ Clauses(db, "read_attribute") = <<>>
    /\ \E k \in 1..Len(staff_log) :
          /\ staff_log[k].action = "read_phi"
          /\ Cardinality(staff_log[k].attrs) = 2
    /\ \E k \in 1..Len(staff_violations) : staff_violations[k].RuleID = "hipaa_min_necessary"

-----------------------------------------------------------------------------
(* C28 *)

\* The group of a rule among the in-window violations of the scored principal.
WindowGroup(rule) == RuleGroup(WindowRows, rule)

\* first and last are the earliest and the latest timestamp of the group.
Extremes(group, first, last) ==
    /\ \E k \in 1..Len(group) : group[k].timestamp = <<first>>
    /\ \E k \in 1..Len(group) : group[k].timestamp = <<last>>
    /\ \A k \in 1..Len(group) :
          first <= group[k].timestamp[1] /\ group[k].timestamp[1] <= last

\* The severity score of the group from a volume, a duration and a breadth.
SeverityFrom(group, vol, dur, br) ==
    Times(scorer.weights.C, criticality(scorer, group[1].RuleID))
      + Times(scorer.weights.V, _normalize(vol, scorer.k.V))
      + Times(scorer.weights.T, _normalize(dur, scorer.k.T))
      + Times(scorer.weights.B, _normalize(br, scorer.k.B))

\* C28: in each rule group of the scored principal the volume is the number
\* of distinct resources, which a repeated violation on a resource of the
\* group does not raise; the duration is the number of whole days between the
\* earliest and the latest violation of the group plus 1, so 1 for a single
\* violation or for violations less than a day apart; the breadth is 1; and
\* the severity score of the group is computed from these three numbers.
C28_GroupMeasures ==
    pc = "scored" =>
        \A rule \in WindowRules :
            /\ \E resources \in SUBSET {v.resource : v \in Range(all_detected_violations)} :
                  /\ \A k \in 1..Len(WindowGroup(rule)) :
                        WindowGroup(rule)[k].resource \in resources
                  /\ \A res \in resources :
                        \E k \in 1..Len(WindowGroup(rule)) :
                            WindowGroup(rule)[k].resource = res
                  /\ volume(WindowGroup(rule)) = Cardinality(resources)
            /\ \A k \in 1..Len(WindowGroup(rule)) :
                  volume(Append(WindowGroup(rule), WindowGroup(rule)[k]))
                     = volume(WindowGroup(rule))
            /\ \A first, last \in ValidTimes(WindowGroup(rule)) :
                  Extremes(WindowGroup(rule), first, last) =>
                      /\ duration(WindowGroup(rule))
                            = (last - first) \div SecondsPerDay + 1
                      /\ last - first < SecondsPerDay => duration(WindowGroup(rule)) = 1
            /\ Len(WindowGroup(rule)) = 1 => duration(WindowGroup(rule)) = 1
            /\ breadth = 1
            /\ severity_score(scorer, WindowGroup(rule))
                  = SeverityFrom(WindowGroup(rule), volume(WindowGroup(rule)),
                                 duration(WindowGroup(rule)), 1)

\* A group of three violations on two resources, twelve days from the first
\* to the last: volume 2 and duration 13.
C28_Witness ==
    /\ pc = "scored"
    /\ \E rule \in WindowRules :
          /\ Len(WindowGroup(rule)) = 3
          /\ volume(WindowGroup(rule)) = 2
          /\ duration(WindowGroup(rule)) = 13
          /\ final_score = <<Scale - SeverityFrom(WindowGroup(rule), 2, 13, 1)>>

-----------------------------------------------------------------------------
(* C29 *)

\* The weights and the normalization constants of the scorer are not
\* negative.
NonNegativeScorer ==
    /\ \A c \in DOMAIN scorer.weights : scorer.weights[c] >= 0
    /\ \A c \in DOMAIN scorer.k : scorer.k[c] >= 0

\* w has a timestamp that is not later than the current window end.
NotLaterThanWindowEnd(w) ==
    /\ w.timestamp # NaT
    /\ \E t \in ValidTimes(all_detected_violations) :
          IsWindowEnd(t) /\ w.timestamp[1] <= t

ScoreOf(violations, principal) ==
    calculate_final_score(scorer, violations, principal, time_window_days)

\* C29: with weights and normalization constants that are not negative, one
\* more violation with a timestamp not later than the window end raises the
\* score of no principal: the score of the principal of the violation stays
\* or drops, the score of every other principal stays.
C29_Monotone ==
    (pc = "scored" /\ NonNegativeScorer) =>
        /\ final_score[1] = ScoreOf(all_detected_violations, principal_id)
        /\ \A w \in WindowPool :
              NotLaterThanWindowEnd(w) =>
                  \A p \in ScoredPrincipals :
                      /\ ScoreOf(Append(all_detected_violations, w), p)
                            <= ScoreOf(all_detected_violations, p)
                      /\ p # w.Principal =>
                            ScoreOf(Append(all_detected_violations, w), p)
                               = ScoreOf(all_detected_violations, p)

\* The scored principal has a score above 0 that one more violation inside
\* the window lowers, and a violation of another principal leaves it.
C29_Witness ==
    /\ pc = "scored"
    /\ NonNegativeScorer
    /\ final_score[1] > 0
    /\ final_score[1] < Scale
    /\ \E w \in WindowPool :
          /\ NotLaterThanWindowEnd(w)
          /\ w.Principal = principal_id
          /\ ScoreOf(Append(all_detected_violations, w), principal_id) < final_score[1]
    /\ \E w \in WindowPool :
          /\ NotLaterThanWindowEnd(w)
          /\ w.Principal # principal_id
          /\ ScoreOf(Append(all_detected_violations, w), principal_id) = final_score[1]

-----------------------------------------------------------------------------
(* test.py: the standalone test of the access rule as a state machine.  The  *)
(* log is in staff_log, the rows that are audited are its access requests.   *)

MaxTestLog == 4

\* Faulty variant of violation_v1: the request must also be unfulfilled, as in
\* version 2 of the rule.
violation_v2(base) ==
    FlatMap(LAMBDA req :
               FlatMap(LAMBDA own :
                          IF own[2] = req[2] /\ own[3] = req[3]
                             /\ ~Holds(base, <<"request_fulfilled", req[4]>>)
                          THEN <<[RuleID |-> "gdpr_art15_v1", Principal |-> req[2],
                                  ObjectID |-> req[4]]>>
                          ELSE <<>>,
                       Clauses(base, "owns_data")),
            Clauses(base, "request_access"))

\* POLICY_RULES, version 1: violation('gdpr_art15_v1', Principal, RequestID)
\* for every request_access(Principal, Resource, RequestID, _) and every
\* owns_data(Principal, Resource), in clause order.
violation_v1(base) ==
    FlatMap(LAMBDA req :
               FlatMap(LAMBDA own :
                          IF own[2] = req[2] /\ own[3] = req[3]
                          THEN <<[RuleID |-> "gdpr_art15_v1", Principal |-> req[2],
                                  ObjectID |-> req[4]]>>
                          ELSE <<>>,
                       Clauses(base, "owns_data")),
            Clauses(base, "request_access"))

\* The members of a set in some order.
RECURSIVE SetToSeq(_)
SetToSeq(S) ==
    IF S = {} THEN <<>> ELSE LET x == CHOOSE y \in S : TRUE IN <<x>> \o SetToSeq(S \ {x})

\* test.py, preprocess_log_to_generate_facts: one request_fulfilled row for
\* each request id that a provide_data row carries.
test_preprocess(log_df) ==
    [k \in 1..Cardinality({row.request_id : row \in {r \in Range(log_df) :
                                                       r.action = "provide_data"}}) |->
        KbRow1("request_fulfilled",
               SetToSeq({row.request_id : row \in {r \in Range(log_df) :
                                                     r.action = "provide_data"}})[k])]

\* audit_log = log_df[log_df['action'] == 'request_access']
audit_log == SelectSeq(staff_log, LAMBDA row : row.action = "request_access")

\* The action_fact of run_full_audit; the date is the day of the timestamp.
TestActionFact(entry) ==
    <<"request_access", entry.principal, entry.resource, entry.request_id,
      entry.timestamp[1] \div SecondsPerDay>>

\* main of test.py up to the call of run_full_audit.
TestLoad ==
    /\ pc = "test_main"
    /\ db' = load_kb_facts(<<>>, kb \o test_preprocess(staff_log))
    /\ pc' = "test_call"
    /\ hist' = Append(hist, Step("load"))
    /\ UNCHANGED scorer_vars
    /\ UNCHANGED <<kb, staff_log, patient_log, run, idx, action_fact,
                   attribute_facts, all_violations, staff_violations,
                   patient_violations>>

\* run_full_audit up to the loop.
TestBegin ==
    /\ pc = "test_call"
    /\ all_violations' = <<>>
    /\ db' = assertz(db, CurrentDateFact)
    /\ idx' = 1
    /\ pc' = "test_loop"
    /\ hist' = Append(hist, Step("begin"))
    /\ UNCHANGED scorer_vars
    /\ UNCHANGED <<kb, staff_log, patient_log, run, action_fact,
                   attribute_facts, staff_violations, patient_violations>>

\* The request fact of the row is asserted.
TestAssert ==
    /\ pc = "test_loop"
    /\ idx <= Len(audit_log)
    /\ action_fact' = TestActionFact(audit_log[idx])
    /\ db' = assertz(db, TestActionFact(audit_log[idx]))
    /\ pc' = "test_query"
    /\ hist' = Append(hist, Step("assert"))
    /\ UNCHANGED scorer_vars
    /\ UNCHANGED <<kb, staff_log, patient_log, run, idx, attribute_facts,
                   all_violations, staff_violations, patient_violations>>

\* The query; its solutions are decoded and appended.
TestEvaluate ==
    /\ pc = "test_query"
    /\ all_violations' = all_violations \o violation_v1(db)
    /\ pc' = "test_retract"
    /\ hist' = Append(hist, Step("evaluate"))
    /\ UNCHANGED scorer_vars
    /\ UNCHANGED <<kb, staff_log, patient_log, db, run, idx, action_fact,
                   attribute_facts, staff_violations, patient_violations>>

\* self.prolog.retract(action_fact)
TestRetract ==
    /\ pc = "test_retract"
    /\ db' = retract(db, action_fact)
    /\ idx' = idx + 1
    /\ pc' = "test_loop"
    /\ hist' = Append(hist, Step("retract"))
    /\ UNCHANGED scorer_vars
    /\ UNCHANGED <<kb, staff_log, patient_log, run, action_fact,
                   attribute_facts, all_violations, staff_violations,
                   patient_violations>>

\* After the loop: current_date is retracted and the list returned.
TestEnd ==
    /\ pc = "test_loop"
    /\ idx > Len(audit_log)
    /\ db' = retract(db, CurrentDateFact)
    /\ pc' = "test_done"
    /\ hist' = Append(hist, Step("end"))
    /\ UNCHANGED scorer_vars
    /\ UNCHANGED <<kb, staff_log, patient_log, run, idx, action_fact,
                   attribute_facts, all_violations, staff_violations,
                   patient_violations>>

NextTest ==
    \/ TestLoad
    \/ TestBegin
    \/ TestAssert
    \/ TestEvaluate
    \/ TestRetract
    \/ TestEnd

\* KNOWLEDGE_BASE_DATA
TestKb ==
    << KbRow2("owns_data", "user_A", "res_A_data"),
       KbRow2("owns_data", "user_B", "res_B_data") >>

TestRow(timestamp, principal, action, resource, request_id) ==
    [timestamp |-> <<timestamp>>, principal |-> principal, action |-> action,
     resource |-> resource, request_id |-> request_id]

\* SYSTEM_LOG_DATA: the audit date is 2025-08-31; 2025-06-10 is 82 days
\* before it.
TestLog ==
    << TestRow(Day(AUDIT_DATE - 82) + 10 * 3600, "user_A", "request_access",
               "res_A_data", "acc_01"),
       TestRow(Day(AUDIT_DATE - 77) + 11 * 3600, "user_B", "request_access",
               "res_B_data", "acc_02"),
       TestRow(Day(AUDIT_DATE - 57) + 11 * 3600 + 1800, "system", "provide_data",
               "", "acc_02"),
       TestRow(Day(AUDIT_DATE - 72) + 12 * 3600, "user_C", "request_access",
               "res_A_data", "acc_03") >>

\* The rows of the test log, a request of user_B for the data of user_A and
\* a request of user_A of ten days ago.
TestPool ==
    Range(TestLog)
      \cup { TestRow(Day(AUDIT_DATE - 70), "user_B", "request_access", "res_A_data",
                     "acc_04"),
             TestRow(Day(AUDIT_DATE - 10), "user_A", "request_access", "res_A_data",
                     "acc_05") }

InitTest ==
    /\ kb \in {TestKb, SubSeq(TestKb, 1, 1)}
    /\ staff_log \in SeqsUpTo(TestPool, MaxTestLog)
    /\ patient_log = <<>>
    /\ db = <<>>
    /\ pc = "test_main"
    /\ run = 1
    /\ idx = 1
    /\ action_fact = <<>>
    /\ attribute_facts = <<>>
    /\ all_violations = <<>>
    /\ staff_violations = <<>>
    /\ patient_violations = <<>>
    /\ hist = <<>>
    /\ scorer = MainScorer
    /\ principal_id = ""
    /\ time_window_days = DefaultWindowDays
    /\ final_score = <<>>

TestSpec == InitTest /\ [][NextTest]_vars

-----------------------------------------------------------------------------
(* C30 *)

\* The principal of the row owns the resource of the row.
OwnerRequests(row) ==
    \E k \in 1..Len(kb) :
        /\ kb[k].fact_name = "owns_data"
        /\ kb[k].arg1 = <<row.principal>>
        /\ kb[k].arg2 = <<row.resource>>

\* The records the access requests of the owners give, in row order.
OwnerRecords(rows) ==
    FlatMap(LAMBDA row :
               IF OwnerRequests(row)
               THEN <<[RuleID |-> "gdpr_art15_v1", Principal |-> row.principal,
                       ObjectID |-> row.request_id]>>
               ELSE <<>>,
            rows)

\* C30: in the standalone test an access request gives a violation exactly
\* when its principal owns the resource, fulfilled or not and whatever its
\* date, so the test log gives exactly 2 violations; and the request fact of
\* a row is in the database only while that row is evaluated.
C30_OwnerRequests ==
    /\ pc \in {"test_loop", "test_done"} =>
          /\ all_violations = OwnerRecords(SubSeq(audit_log, 1, idx - 1))
          /\ Clauses(db, "request_access") = <<>>
    /\ pc \in {"test_query", "test_retract"} =>
          Clauses(db, "request_access") = <<TestActionFact(audit_log[idx])>>
    /\ pc = "test_retract" =>
          all_violations = OwnerRecords(SubSeq(audit_log, 1, idx))
    /\ (pc = "test_done" /\ kb = TestKb /\ staff_log = TestLog) =>
          Len(all_violations) = 2

\* The test of test.py has run: two violations, of acc_01 and of the
\* fulfilled acc_02.
C30_Witness ==
    /\ pc = "test_done"
    /\ kb = TestKb
    /\ staff_log = TestLog
    /\ Holds(db, <<"request_fulfilled", "acc_02">>)
    /\ all_violations
          = << [RuleID |-> "gdpr_art15_v1", Principal |-> "user_A", ObjectID |-> "acc_01"],
               [RuleID |-> "gdpr_art15_v1", Principal |-> "user_B", ObjectID |-> "acc_02"] >>

====
